---- MODULE Spec2Model ----
(***************************************************************************)
(* Battery service of the mangOH Red (batteryComponentRed/battery.c):      *)
(* the presence / calibration state machine, its timer, the config tree    *)
(* entries it owns, the reporting pass and the notification registries.    *)
(*                                                                         *)
(* Conventions.  C integers are kept as the integers they denote; a        *)
(* uint32_t argument is carried as its two's complement int32 bit pattern  *)
(* (so 3000000000 is carried as -1294967296), which is what the code       *)
(* stores into the int32_t Capacity.  Time is counted in milliseconds and  *)
(* advances in steps of TimeStep.  A process that hit LE_FATAL or a fatal  *)
(* signal has alive = FALSE and keeps the memory it died with until the    *)
(* supervisor restarts it (faultAction: restart).                          *)
(***************************************************************************)
EXTENDS Integers, Sequences, FiniteSets, TLC

VARIABLES
    alive,              \* the battery process is running
    State,              \* battery.c:139-148
    Capacity,           \* battery.c:79
    ChargingStatus,     \* battery.c:82
    ChargeCounter,      \* battery.c:85
    OldChargeCounter,   \* battery.c:88
    CurrentFlow,        \* battery.c:91, kept as <<delta uAh, interval ms>>
    PollingPeriod,      \* battery.c:76
    Timer,              \* battery.c:73, [running, interval, elapsed]
    cfg,                \* config tree, path -> int
    oldPercentage,      \* static in ReportAll, battery.c:637
    oldChargingStatus,  \* static oldStatus in ReportChargingStatusChange
    oldHealthStatus,    \* static oldStatus in ReportHealthStatusChange
    LevelAlarmRefMap,   \* battery.c:47, ref -> LevelAlarmReg_t
    ChargingStatusRegRefMap, \* battery.c:50, ref -> ChargingStatusReg_t
    HealthStatusRegRefMap,   \* battery.c:53, ref -> HealthStatusReg_t
    divideByZero,       \* what this build does on an unsigned x / 0
    reports,            \* the reporting passes an observer recorded
    sampleAge,          \* time since charge_counter was read, by an
                        \* observer's clock (ms)
    acceptedPeriod,     \* the period of the last accepted SetPeriod, as
                        \* an observer noted it (s); 0 before the first
    ApiCallbackCheckTimer, \* batteryUtils.h:243
    last                \* record of what the last handler did (history)

vars == <<alive, State, Capacity, ChargingStatus, ChargeCounter,
          OldChargeCounter, CurrentFlow, PollingPeriod, Timer, cfg,
          oldPercentage, oldChargingStatus, oldHealthStatus,
          LevelAlarmRefMap, ChargingStatusRegRefMap, HealthStatusRegRefMap,
          divideByZero, reports, sampleAge, acceptedPeriod,
          ApiCallbackCheckTimer, last>>

----------------------------------------------------------------------------
(* Program constants *)

DEFAULT_BATTERY_SAMPLE_INTERVAL_MS == 10000
STABILIZATION_TIME_MS == 5000
WORST_CASE_ALARM_LAG_MS == 5000

STATE_UNCONFIGURED == "STATE_UNCONFIGURED"
STATE_STABILIZING == "STATE_STABILIZING"
STATE_DETECTING_PRESENCE == "STATE_DETECTING_PRESENCE"
STATE_DISCONNECTED == "STATE_DISCONNECTED"
STATE_CALIBRATING == "STATE_CALIBRATING"
STATE_NOMINAL == "STATE_NOMINAL"

AllStates == {STATE_UNCONFIGURED, STATE_STABILIZING, STATE_DETECTING_PRESENCE,
              STATE_DISCONNECTED, STATE_CALIBRATING, STATE_NOMINAL}

EVENT_TIMER_EXPIRED == "EVENT_TIMER_EXPIRED"
EVENT_CAPACITY_CHANGED == "EVENT_CAPACITY_CHANGED"

MA_BATTERY_DISCHARGING == "MA_BATTERY_DISCHARGING"
MA_BATTERY_CHARGING == "MA_BATTERY_CHARGING"
MA_BATTERY_NOT_CHARGING == "MA_BATTERY_NOT_CHARGING"
MA_BATTERY_FULL == "MA_BATTERY_FULL"
MA_BATTERY_CHARGING_UNKNOWN == "MA_BATTERY_CHARGING_UNKNOWN"
MA_BATTERY_CHARGING_ERROR == "MA_BATTERY_CHARGING_ERROR"

MA_BATTERY_OVERVOLTAGE == "MA_BATTERY_OVERVOLTAGE"
MA_BATTERY_GOOD == "MA_BATTERY_GOOD"
MA_BATTERY_COLD == "MA_BATTERY_COLD"
MA_BATTERY_HOT == "MA_BATTERY_HOT"
MA_BATTERY_DISCONNECTED == "MA_BATTERY_DISCONNECTED"
MA_BATTERY_HEALTH_UNKNOWN == "MA_BATTERY_HEALTH_UNKNOWN"
MA_BATTERY_HEALTH_ERROR == "MA_BATTERY_HEALTH_ERROR"

LEVEL_HIGH == "LEVEL_HIGH"
LEVEL_LOW == "LEVEL_LOW"
LEVEL_NONE == "LEVEL_NONE"

\* Result of a file read that did not return LE_OK.
IOERR == "IOERR"

----------------------------------------------------------------------------
(* Bounds and input sets of the model *)

\* Granularity of the clock (ms per TimePasses step).
TimeStep == STABILIZATION_TIME_MS

\* Largest number of live registrations per registry.
MaxRegs == 1

\* Values pushed to the "batteryInfo/capacity" Data Hub output (mAh, double).
CapacityInputs == {-1, 0, 1, 2000}

\* mAh arguments of ma_adminbattery_SetTechnology, as int32 bit patterns:
\* 2000 and 3000000000 (= 2^32 - 1294967296).
TechnologyInputs == {2000, -1294967296}

\* Values pushed to the "period" Data Hub output (seconds).
PeriodInputs == {-1, 0, 15}

\* Contents of the charge_counter file (uAh).
CounterInputs == {0, 7}

\* Contents of the bq24190-battery/status file.
StatusInputs == {"Charging", "Full", "Discharging", IOERR}

\* Contents of the bq24190-charger/health file.
HealthInputs == {"Good"}

\* Contents of the charge_now file (uAh).
ChargeNowInputs == {1000000, 3000000}

\* Config tree contents found at the very first start.
InitialConfigs == {<<>>, ("batteryInfo/capacity" :> 2000)}

\* Values pushed to the "nominalVoltage" Data Hub output (V).
VoltageInputs == {-1, 4}

\* milliVolts argument of ma_adminbattery_SetTechnology.
TechnologyMilliVolts == {4000}

\* (percentageLow, percentageHigh) arguments of AddLevelPercentageHandler.
LevelInputs == {<<20, 90>>, <<90, 20>>, <<0, 101>>}

\* Client sessions of the ma_battery API (le_msg_SessionRef_t values: object
\* addresses, which no safe reference equals).
Sessions == {101}

\* The clients of the registries when ownership matters.
Clients == {101, 102}

\* Safe references a registry can hand out.
Refs == 1..MaxRegs

\* Handles a client can pass to a Remove function: every reference a registry
\* can hand out and one that none ever did.
Handles == 1..(MaxRegs + 1)

\* Which file read fails during a handler.
FailInputs == {"none", "charge_counter", "charge_now", "voltage_now", "temp"}

\* What an unsigned division by zero does, the behaviour being undefined:
\* raise SIGFPE (a library divide routine) or yield 0 (a hardware divide).
\* It is a property of the build and stays what it is across restarts.
DivZeroInputs == {"trap", "zero"}

\* Everything the hardware can answer during one handler.  An answer the
\* handler never gets to read (it died on an earlier read, or it does not
\* read that file) is fixed to the first line's value, so that one run of a
\* handler is not enumerated several times.
HwDefault ==
    [counter |-> 0, status |-> "Full", health |-> "Good",
     chargeNow |-> 1000000, fail |-> "none", div0 |-> "zero"]

HwInputs ==
    {hw \in [counter : CounterInputs, status : StatusInputs,
             health : HealthInputs, chargeNow : ChargeNowInputs,
             fail : FailInputs, div0 : DivZeroInputs] :
        /\ hw.fail = "charge_counter" =>
               /\ hw.counter = HwDefault.counter
               /\ hw.status = HwDefault.status
        /\ hw.fail \in {"charge_counter", "charge_now"} =>
               /\ hw.health = HwDefault.health
               /\ hw.chargeNow = HwDefault.chargeNow}

\* A timer tick reads every file.
TickHwInputs ==
    {hw \in HwInputs : hw.div0 = divideByZero}

\* A capacity change reads neither the counter nor the status.
ReportHwInputs ==
    {hw \in HwInputs : /\ hw.div0 = divideByZero
                       /\ hw.fail /= "charge_counter"
                       /\ hw.counter = HwDefault.counter
                       /\ hw.status = HwDefault.status}

\* Start-up reads the counter only.
InitHwInputs ==
    {hw \in HwInputs : /\ hw.fail \in {"none", "charge_counter"}
                       /\ hw.status = HwDefault.status
                       /\ hw.health = HwDefault.health
                       /\ hw.chargeNow = HwDefault.chargeNow
                       /\ hw.div0 = HwDefault.div0}

----------------------------------------------------------------------------
(* C arithmetic *)

\* C integer division truncates toward zero.
CDiv(a, b) ==
    IF (a >= 0) = (b > 0) THEN a \div b ELSE -((-a) \div b)

\* a + b in int32_t, wrapping on overflow (no intermediate leaves int32).
WrapAdd(a, b) ==
    IF a > 0 /\ b > 0 /\ a > 2147483647 - b
        THEN ((a - 2147483647) + (b - 2147483647)) - 2
    ELSE IF a < 0 /\ b < 0 /\ a < (-2147483647 - 1) - b
        THEN ((a + 2147483647) + (b + 2147483647)) + 2
    ELSE a + b

RECURSIVE WrapShl(_, _)
WrapShl(a, n) == IF n = 0 THEN a ELSE WrapShl(WrapAdd(a, a), n - 1)

\* -a in int32_t (INT32_MIN maps to itself).
WrapNeg(a) == IF a = -2147483647 - 1 THEN a ELSE -a

\* mAh * 1000 in int32_t: 1000 = 1024 - 16 - 8.
Mul1000(a) ==
    WrapAdd(WrapAdd(WrapShl(a, 10), WrapNeg(WrapShl(a, 4))),
            WrapNeg(WrapShl(a, 3)))

\* (uint16_t) of a non-negative int.
ToUint16(a) == a % 65536

----------------------------------------------------------------------------
(* History record: what the last handler that ran the state machine (or  *)
(* started the service) did.  The properties read it; the program does     *)
(* not.  A step that changes the program state without running the state   *)
(* machine resets it to Quiet("-"); a handler that returns without doing   *)
(* anything is a stuttering step.                                          *)

QuietAt(op, state) ==
    [op           |-> op,       \* handler that ran
     pre          |-> state,    \* State when the handler was entered
     args         |-> <<>>,     \* arguments of an API call
     result       |-> {},       \* the handle an API call returned, if any
     event        |-> "none",   \* event handed to RunStateMachine
     seen         |-> {},       \* what a capacity change event found
     counters     |-> <<>>,     \* <<OldChargeCounter, ChargeCounter>> the
                                \* event found
     counterReads |-> <<>>,     \* the samples read from charge_counter
     calibrated   |-> FALSE,    \* StartCalibration ran
     gaugeWrites  |-> <<>>,     \* values written to charge_now (uAh)
     chargeLevels |-> <<>>,     \* arguments of UpdateChargeLevel (mAh)
     chargeNowRead |-> FALSE,   \* ReportAll read charge_now
     deleted      |-> FALSE,    \* DeletePercentage ran
     saved        |-> <<>>,     \* <<State, percentage>> of each SavePercentage
     reportState  |-> "none",   \* State seen by a completed ReportAll
     levelSamples |-> {},       \* each registration as the sample found it
     alarms       |-> {},       \* <<ref, percentage, threshold, isHigh>>
     chargingCalls |-> {},      \* <<ref, status>> handed to subscribers
     healthCalls  |-> {},       \* <<ref, health>> handed to subscribers
     rawHealth    |-> "none",   \* contents of the health file, if read
     readFailed   |-> {},       \* the files whose read failed
     chargingSample |-> "none", \* status handed to the charging dispatcher
     healthSample |-> "none",   \* status handed to the health dispatcher
     pushed       |-> <<>>]     \* readings pushed to the Data Hub

Quiet(op) == QuietAt(op, State)

\* The process memory and the config tree as one record, so that a C
\* function reads as an operator from memory to memory.
Mem(op) ==
    [alive |-> alive, State |-> State, Capacity |-> Capacity,
     ChargingStatus |-> ChargingStatus, ChargeCounter |-> ChargeCounter,
     OldChargeCounter |-> OldChargeCounter, CurrentFlow |-> CurrentFlow,
     PollingPeriod |-> PollingPeriod, Timer |-> Timer, cfg |-> cfg,
     oldPercentage |-> oldPercentage,
     oldChargingStatus |-> oldChargingStatus,
     oldHealthStatus |-> oldHealthStatus,
     LevelAlarmRefMap |-> LevelAlarmRefMap,
     ChargingStatusRegRefMap |-> ChargingStatusRegRefMap,
     HealthStatusRegRefMap |-> HealthStatusRegRefMap,
     last |-> Quiet(op)]

Store(m) ==
    /\ alive' = m.alive
    /\ State' = m.State
    /\ Capacity' = m.Capacity
    /\ ChargingStatus' = m.ChargingStatus
    /\ ChargeCounter' = m.ChargeCounter
    /\ OldChargeCounter' = m.OldChargeCounter
    /\ CurrentFlow' = m.CurrentFlow
    /\ PollingPeriod' = m.PollingPeriod
    /\ Timer' = m.Timer
    /\ cfg' = m.cfg
    /\ oldPercentage' = m.oldPercentage
    /\ oldChargingStatus' = m.oldChargingStatus
    /\ oldHealthStatus' = m.oldHealthStatus
    /\ LevelAlarmRefMap' = m.LevelAlarmRefMap
    /\ ChargingStatusRegRefMap' = m.ChargingStatusRegRefMap
    /\ HealthStatusRegRefMap' = m.HealthStatusRegRefMap
    /\ last' = m.last
    /\ UNCHANGED divideByZero

\* A handler ends in m and nobody records its reports.
\* What the handlers of battery.c never touch.
Beside == <<reports, sampleAge, acceptedPeriod, ApiCallbackCheckTimer>>

Commit(m) == Store(m) /\ UNCHANGED Beside

\* A step ends in m with the observer's clock at age.
Timed(m, age) ==
    /\ Store(m)
    /\ UNCHANGED <<reports, acceptedPeriod, ApiCallbackCheckTimer>>
    /\ sampleAge' = age

\* A step ends in m with the observer having noted the period accepted.
Retimed(m, period) ==
    /\ Store(m)
    /\ UNCHANGED <<reports, sampleAge, ApiCallbackCheckTimer>>
    /\ acceptedPeriod' = period

\* A step ends in m with the API callback check timer as given.
Notified(m, timer) ==
    /\ Store(m)
    /\ UNCHANGED <<reports, sampleAge, acceptedPeriod>>
    /\ ApiCallbackCheckTimer' = timer

\* What a recorded reporting pass leaves in the record: what each dispatcher
\* was handed and the callbacks it made.
Report(m) ==
    [levelSamples |-> m.last.levelSamples, alarms |-> m.last.alarms,
     chargingRefs |-> DOMAIN m.ChargingStatusRegRefMap,
     chargingSample |-> m.last.chargingSample,
     chargingCalls |-> m.last.chargingCalls]

\* A handler ends in m and its reporting pass, if it completed one, is
\* recorded.
Recorded(m) ==
    /\ Store(m)
    /\ reports' = IF m.last.reportState /= "none"
                      THEN Append(reports, Report(m)) ELSE reports
    /\ UNCHANGED <<sampleAge, acceptedPeriod, ApiCallbackCheckTimer>>

\* The memory as it stands, history included.
Keep == [Mem("-") EXCEPT !.last = last]

\* A handler that started from m0 and ended in m: one that did nothing at
\* all leaves every variable, the history included, as it was.
Done(m0, m) == Commit(IF m = m0 THEN Keep ELSE m)

\* LE_FATAL, or a fatal signal: the process dies where it stands.
Fatal(m) == [m EXCEPT !.alive = FALSE]

\* The read of a file failed.
ReadFailed(m, file) == [m EXCEPT !.last.readFailed = @ \cup {file}]

----------------------------------------------------------------------------
(* Legato timer and config tree, as the service uses them *)

le_timer_Stop(t) == [t EXCEPT !.running = FALSE]

\* Stop, then start: the timer runs afterwards, whether it ran or not.
le_timer_Restart(t) == [t EXCEPT !.running = TRUE, !.elapsed = 0]

\* The API callback check timer as COMPONENT_INIT of batteryUtils.h leaves
\* it: created, repeating, not started.
NotifyTimer ==
    [running |-> FALSE, elapsed |-> 0, interval |-> WORST_CASE_ALARM_LAG_MS]

\* Starting a running timer is refused (LE_BUSY).
le_timer_Start(t) ==
    IF t.running THEN t ELSE [t EXCEPT !.running = TRUE, !.elapsed = 0]

\* The interval of a running timer changes in place; the time already
\* elapsed is kept.
le_timer_SetMsInterval(t, ms) == [t EXCEPT !.interval = ms]

le_cfg_QuickGetInt(c, key, default) ==
    IF key \in DOMAIN c THEN c[key] ELSE default

le_cfg_QuickSetInt(c, key, v) ==
    [k \in (DOMAIN c) \cup {key} |-> IF k = key THEN v ELSE c[k]]

le_cfg_QuickDeleteNode(c, key) ==
    [k \in (DOMAIN c) \ {key} |-> c[k]]

SavePercentage(m, percentage) ==
    [m EXCEPT !.cfg = le_cfg_QuickSetInt(m.cfg, "batteryInfo/percent", percentage),
              !.last.saved = Append(@, <<m.State, percentage>>)]

DeletePercentage(m) ==
    [m EXCEPT !.cfg = le_cfg_QuickDeleteNode(m.cfg, "batteryInfo/percent"),
              !.last.deleted = TRUE]

\* Variant: the stored percentage is never found.
LoadPercentageNotFound(c) == -1

LoadPercentage(c) == le_cfg_QuickGetInt(c, "batteryInfo/percent", -1)

----------------------------------------------------------------------------
(* Gauge correction and the entry functions of the state machine *)

\* Variant: the value goes to the gauge whatever its sign.
UpdateChargeLevelUnguarded(m, mAh) ==
    [m EXCEPT !.last.chargeLevels = Append(@, mAh),
              !.last.gaugeWrites = Append(@, Mul1000(mAh))]

\* int uAh = mAh * 1000 is computed in int.
UpdateChargeLevel(m, mAh) ==
    IF mAh > 0
        THEN [m EXCEPT !.last.chargeLevels = Append(@, mAh),
                       !.last.gaugeWrites = Append(@, Mul1000(mAh))]
        ELSE [m EXCEPT !.last.chargeLevels = Append(@, mAh)]

StartStabilization(m) ==
    [m EXCEPT !.State = STATE_STABILIZING,
              !.Timer = le_timer_Start(
                            le_timer_SetMsInterval(le_timer_Stop(m.Timer),
                                                   STABILIZATION_TIME_MS))]

\* Variant: a full battery is calibrated like any other.
StartCalibrationAlwaysHalf(m) ==
    [UpdateChargeLevel(m, CDiv(m.Capacity, 2))
         EXCEPT !.State = STATE_CALIBRATING,
                !.last.calibrated = TRUE,
                !.Timer = [running |-> TRUE, interval |-> m.PollingPeriod,
                           elapsed |-> 0]]

\* Variant: every battery found is taken to be full.
StartCalibrationAlwaysFull(m) ==
    [UpdateChargeLevel(m, m.Capacity)
         EXCEPT !.State = STATE_NOMINAL,
                !.last.calibrated = TRUE,
                !.Timer = [running |-> TRUE, interval |-> m.PollingPeriod,
                           elapsed |-> 0]]

StartCalibration(m) ==
    LET m1 == IF m.ChargingStatus = MA_BATTERY_FULL
                  THEN [UpdateChargeLevel(m, m.Capacity)
                            EXCEPT !.State = STATE_NOMINAL]
                  ELSE [UpdateChargeLevel(m, CDiv(m.Capacity, 2))
                            EXCEPT !.State = STATE_CALIBRATING]
    IN  [m1 EXCEPT !.last.calibrated = TRUE,
                   !.Timer = le_timer_Start(
                                 le_timer_SetMsInterval(
                                     le_timer_Stop(m1.Timer),
                                     m1.PollingPeriod))]

UnconfiguredState(m, event) ==
    IF event = EVENT_TIMER_EXPIRED
        THEN [m EXCEPT !.Timer = le_timer_Stop(m.Timer)]
        ELSE StartStabilization(m)

\* Variant: a capacity change leaves the running settle timer alone.
StabilizingStateKeepsTimer(m, event) ==
    IF event = EVENT_TIMER_EXPIRED
        THEN [m EXCEPT !.State = STATE_DETECTING_PRESENCE,
                       !.Timer = [running |-> TRUE,
                                  interval |-> m.PollingPeriod,
                                  elapsed |-> 0]]
        ELSE m

StabilizingState(m, event) ==
    IF event = EVENT_TIMER_EXPIRED
        THEN [m EXCEPT !.State = STATE_DETECTING_PRESENCE,
                       !.Timer = le_timer_Start(
                                     le_timer_SetMsInterval(
                                         le_timer_Stop(m.Timer),
                                         m.PollingPeriod))]
        ELSE [m EXCEPT !.Timer = le_timer_Start(le_timer_Stop(m.Timer))]

\* Variant: a charger without a battery is not noticed.
DetectingPresenceStateStays(m, event) ==
    IF event = EVENT_TIMER_EXPIRED
        THEN IF m.ChargeCounter /= m.OldChargeCounter
                 THEN StartCalibration([m EXCEPT !.State = STATE_CALIBRATING])
                 ELSE m
        ELSE StartStabilization(m)

\* Variant: a counter that stands still means no battery, whatever the
\* charger says.
DetectingPresenceStateAnyStatus(m, event) ==
    IF event = EVENT_TIMER_EXPIRED
        THEN IF m.ChargeCounter /= m.OldChargeCounter
                 THEN StartCalibration([m EXCEPT !.State = STATE_CALIBRATING])
                 ELSE [m EXCEPT !.State = STATE_DISCONNECTED]
        ELSE StartStabilization(m)

DetectingPresenceState(m, event) ==
    IF event = EVENT_TIMER_EXPIRED
        THEN IF m.ChargeCounter /= m.OldChargeCounter
                 THEN StartCalibration([m EXCEPT !.State = STATE_CALIBRATING])
             ELSE IF m.ChargingStatus = MA_BATTERY_CHARGING
                 THEN [m EXCEPT !.State = STATE_DISCONNECTED]
             ELSE m
        ELSE StartStabilization(m)

\* Variant: a battery that reappears has the gauge settle first.
DisconnectedStateRestabilizes(m, event) ==
    IF event = EVENT_TIMER_EXPIRED
        THEN IF m.ChargeCounter /= m.OldChargeCounter
                 THEN StartStabilization(m)
                 ELSE m
        ELSE StartStabilization(m)

DisconnectedState(m, event) ==
    IF event = EVENT_TIMER_EXPIRED
        THEN IF m.ChargeCounter /= m.OldChargeCounter
                 THEN StartCalibration([m EXCEPT !.State = STATE_CALIBRATING])
                 ELSE m
        ELSE StartStabilization(m)

\* Variant: the disconnect keeps the stored percentage.
CalibratingStateKeepsPercentage(m, event) ==
    IF event = EVENT_TIMER_EXPIRED
        THEN IF m.ChargingStatus = MA_BATTERY_FULL
                 THEN [UpdateChargeLevel(m, m.Capacity)
                           EXCEPT !.State = STATE_NOMINAL]
             ELSE IF /\ m.ChargeCounter = m.OldChargeCounter
                     /\ m.ChargingStatus = MA_BATTERY_CHARGING
                 THEN [m EXCEPT !.State = STATE_DISCONNECTED]
             ELSE m
        ELSE StartStabilization(m)

CalibratingState(m, event) ==
    IF event = EVENT_TIMER_EXPIRED
        THEN IF m.ChargingStatus = MA_BATTERY_FULL
                 THEN [UpdateChargeLevel(m, m.Capacity)
                           EXCEPT !.State = STATE_NOMINAL]
             ELSE IF /\ m.ChargeCounter = m.OldChargeCounter
                     /\ m.ChargingStatus = MA_BATTERY_CHARGING
                 THEN DeletePercentage(
                          [m EXCEPT !.State = STATE_DISCONNECTED])
             ELSE m
        ELSE StartStabilization(m)

\* Variant: a full battery is not written back to the gauge.
NominalStateNoRecalibration(m, event) ==
    IF event = EVENT_TIMER_EXPIRED
        THEN IF /\ m.ChargeCounter = m.OldChargeCounter
                /\ m.ChargingStatus = MA_BATTERY_CHARGING
                 THEN DeletePercentage(
                          [m EXCEPT !.State = STATE_DISCONNECTED])
                 ELSE m
        ELSE StartStabilization(m)

\* Variant: the disconnect keeps the stored percentage.
NominalStateKeepsPercentage(m, event) ==
    IF event = EVENT_TIMER_EXPIRED
        THEN IF /\ m.ChargeCounter = m.OldChargeCounter
                /\ m.ChargingStatus = MA_BATTERY_CHARGING
                 THEN [m EXCEPT !.State = STATE_DISCONNECTED]
             ELSE IF m.ChargingStatus = MA_BATTERY_FULL
                 THEN UpdateChargeLevel(m, m.Capacity)
             ELSE m
        ELSE StartStabilization(m)

NominalState(m, event) ==
    IF event = EVENT_TIMER_EXPIRED
        THEN IF /\ m.ChargeCounter = m.OldChargeCounter
                /\ m.ChargingStatus = MA_BATTERY_CHARGING
                 THEN DeletePercentage(
                          [m EXCEPT !.State = STATE_DISCONNECTED])
             ELSE IF m.ChargingStatus = MA_BATTERY_FULL
                 THEN UpdateChargeLevel(m, m.Capacity)
             ELSE m
        ELSE StartStabilization(m)

----------------------------------------------------------------------------
(* Getters used by the reporting pass and by the API *)

\* Variant: a raw Good is Good whatever the state.
GetHealthStatusUnmasked(state, healthValue) ==
    IF state = STATE_DISCONNECTED THEN MA_BATTERY_DISCONNECTED
    ELSE IF healthValue = IOERR THEN MA_BATTERY_HEALTH_ERROR
    ELSE IF healthValue = "Good" THEN MA_BATTERY_GOOD
    ELSE IF healthValue = "Cold" THEN MA_BATTERY_COLD
    ELSE MA_BATTERY_HEALTH_UNKNOWN

ma_battery_GetHealthStatus(state, healthValue) ==
    IF state = STATE_DISCONNECTED THEN MA_BATTERY_DISCONNECTED
    ELSE IF healthValue = IOERR THEN MA_BATTERY_HEALTH_ERROR
    ELSE IF healthValue = "Good"
        THEN IF state /= STATE_CALIBRATING /\ state /= STATE_NOMINAL
                 THEN MA_BATTERY_HEALTH_UNKNOWN
                 ELSE MA_BATTERY_GOOD
    ELSE IF healthValue = "Overvoltage" THEN MA_BATTERY_OVERVOLTAGE
    ELSE IF healthValue = "Cold" THEN MA_BATTERY_COLD
    ELSE IF healthValue = "Overheat" THEN MA_BATTERY_HOT
    ELSE MA_BATTERY_HEALTH_UNKNOWN

\* Variant: the raw status whatever the state.
GetChargingStatusUnmasked(state, chargingStatus) == chargingStatus

ma_battery_GetChargingStatus(state, chargingStatus) ==
    IF state \in {STATE_UNCONFIGURED, STATE_STABILIZING,
                  STATE_DETECTING_PRESENCE, STATE_DISCONNECTED}
        THEN MA_BATTERY_CHARGING_UNKNOWN
        ELSE chargingStatus

IsCharging(state, chargingStatus) ==
    LET status == ma_battery_GetChargingStatus(state, chargingStatus)
    IN  status = MA_BATTERY_CHARGING \/ status = MA_BATTERY_FULL

\* Variant: no clamp at 100.
ComputePercentageUnclamped(mAh, capacity) ==
    LET percentTimesTen == IF capacity > 0 THEN (1000 * mAh) \div capacity
                           ELSE 0
    IN  (percentTimesTen \div 10)
            + (IF percentTimesTen % 10 >= 5 THEN 1 ELSE 0)

\* Variant: the tenths are dropped.
ComputePercentageTruncating(mAh, capacity) ==
    LET percentTimesTen == IF capacity > 0 THEN (1000 * mAh) \div capacity
                           ELSE 0
        percentage == percentTimesTen \div 10
    IN  IF percentage > 100 THEN 100 ELSE percentage

\* 1000UL * mAh / Capacity with Capacity converted to unsigned long: a
\* negative Capacity becomes a divisor above 2^31, larger than any
\* 1000 * mAh with mAh a uint16_t, so the quotient is 0.  The quotient for
\* Capacity = 0 is the one a non-trapping divide instruction yields.
ComputePercentage(mAh, capacity) ==
    LET percentTimesTen == IF capacity > 0 THEN (1000 * mAh) \div capacity
                           ELSE 0
        percentage == (percentTimesTen \div 10)
                      + (IF percentTimesTen % 10 >= 5 THEN 1 ELSE 0)
    IN  IF percentage > 100 THEN 100 ELSE percentage

\* ComputePercentage of batteryUtils.h, for a charge and a capacity below
\* 2^32 / 1000 (the product is an unsigned int).
batteryUtils_ComputePercentage(charge, capacity) ==
    IF charge > capacity THEN 100
    ELSE IF capacity = 0 THEN 0
    ELSE LET percentTimesTen == (1000 * charge) \div capacity
         IN  (percentTimesTen \div 10)
                 + (IF percentTimesTen % 10 >= 5 THEN 1 ELSE 0)

----------------------------------------------------------------------------
(* Notification dispatch *)

\* Variant: simple thresholding, whatever alarm went before.
AlarmForThreshold(reg, percentage) ==
    IF percentage > reg.percentageHigh THEN LEVEL_HIGH
    ELSE IF percentage < reg.percentageLow THEN LEVEL_LOW
    ELSE LEVEL_NONE

\* Variant: a high alarm repeats while the percentage stays high.
AlarmForRepeatingHigh(reg, percentage) ==
    IF percentage > reg.percentageHigh THEN LEVEL_HIGH
    ELSE IF percentage < reg.percentageLow /\ reg.lastAlarmType /= LEVEL_LOW
        THEN LEVEL_LOW
    ELSE LEVEL_NONE

\* Variant: a low alarm repeats while the percentage stays low.
AlarmForRepeatingLow(reg, percentage) ==
    IF percentage > reg.percentageHigh /\ reg.lastAlarmType /= LEVEL_HIGH
        THEN LEVEL_HIGH
    ELSE IF percentage < reg.percentageLow THEN LEVEL_LOW
    ELSE LEVEL_NONE

\* The alarm a registration raises for a sample, or LEVEL_NONE.
AlarmFor(reg, percentage) ==
    IF percentage > reg.percentageHigh /\ reg.lastAlarmType /= LEVEL_HIGH
        THEN LEVEL_HIGH
    ELSE IF percentage < reg.percentageLow /\ reg.lastAlarmType /= LEVEL_LOW
        THEN LEVEL_LOW
    ELSE LEVEL_NONE

ReportBatteryLevelAlarms(m, percentage) ==
    LET map == m.LevelAlarmRefMap
        fired == {r \in DOMAIN map : AlarmFor(map[r], percentage) /= LEVEL_NONE}
    IN  [m EXCEPT
            !.LevelAlarmRefMap =
                [r \in DOMAIN map |->
                    IF r \in fired
                        THEN [map[r] EXCEPT
                                 !.lastAlarmType = AlarmFor(map[r], percentage)]
                        ELSE map[r]],
            !.last.levelSamples =
                {[ref |-> r, percentage |-> percentage,
                  percentageLow |-> map[r].percentageLow,
                  percentageHigh |-> map[r].percentageHigh,
                  lastAlarmType |-> map[r].lastAlarmType] : r \in DOMAIN map},
            !.last.alarms =
                {<<r, percentage,
                   IF AlarmFor(map[r], percentage) = LEVEL_HIGH
                       THEN map[r].percentageHigh ELSE map[r].percentageLow,
                   AlarmFor(map[r], percentage) = LEVEL_HIGH>> : r \in fired}]

\* Variant: every sample is broadcast.
ReportChargingStatusChangeEverySample(m) ==
    LET chargingStatus ==
            ma_battery_GetChargingStatus(m.State, m.ChargingStatus)
    IN  [m EXCEPT !.oldChargingStatus = chargingStatus,
                  !.last.chargingSample = chargingStatus,
                  !.last.chargingCalls =
                      {<<r, chargingStatus>> :
                          r \in DOMAIN m.ChargingStatusRegRefMap}]

ReportChargingStatusChange(m) ==
    LET chargingStatus ==
            ma_battery_GetChargingStatus(m.State, m.ChargingStatus)
        m1 == [m EXCEPT !.last.chargingSample = chargingStatus]
    IN  IF m.oldChargingStatus /= chargingStatus
            THEN [m1 EXCEPT
                     !.oldChargingStatus = chargingStatus,
                     !.last.chargingCalls =
                         {<<r, chargingStatus>> :
                             r \in DOMAIN m.ChargingStatusRegRefMap}]
            ELSE m1

\* Variant: every sample is broadcast.
ReportHealthStatusChangeEverySample(m, healthStatus) ==
    [m EXCEPT !.oldHealthStatus = healthStatus,
              !.last.healthSample = healthStatus,
              !.last.healthCalls =
                  {<<r, healthStatus>> : r \in DOMAIN m.HealthStatusRegRefMap}]

ReportHealthStatusChange(m, healthStatus) ==
    LET m1 == [m EXCEPT !.last.healthSample = healthStatus]
    IN  IF m.oldHealthStatus /= healthStatus
            THEN [m1 EXCEPT
                     !.oldHealthStatus = healthStatus,
                     !.last.healthCalls =
                         {<<r, healthStatus>> :
                             r \in DOMAIN m.HealthStatusRegRefMap}]
            ELSE m1

\* Variant: the reading is pushed as computed, whatever the health.
PushToDataHubUnzeroed(m, hw, healthStatus, percentage, mAh) ==
    IF hw.fail = "voltage_now" \/ hw.fail = "temp"
        THEN Fatal(ReadFailed(m, hw.fail))
    ELSE [m EXCEPT !.last.pushed =
             Append(@, [health |-> healthStatus,
                        percentage |-> percentage,
                        mAh |-> mAh,
                        charging |-> IsCharging(m.State, m.ChargingStatus),
                        mA |-> m.CurrentFlow])]

\* hw.fail names the file whose read fails during this handler, if any.
PushToDataHub(m, hw, healthStatus, percentage, mAh) ==
    IF hw.fail = "voltage_now" \/ hw.fail = "temp"
        THEN Fatal(ReadFailed(m, hw.fail))
    ELSE LET zeroed == healthStatus \in {MA_BATTERY_DISCONNECTED,
                                         MA_BATTERY_HEALTH_ERROR,
                                         MA_BATTERY_HEALTH_UNKNOWN}
         IN  [m EXCEPT !.last.pushed =
                 Append(@, [health |-> healthStatus,
                            percentage |-> IF zeroed THEN 0 ELSE percentage,
                            mAh |-> IF zeroed THEN 0 ELSE mAh,
                            charging |-> IsCharging(m.State,
                                                    m.ChargingStatus),
                            mA |-> m.CurrentFlow])]

\* ma_battery_GetChargeRemaining: uAh / 1000 stored into a uint16_t.
ChargeRemaining(uAh) == ToUint16(CDiv(uAh, 1000))

ReportAll(m00, hw) ==
    LET m == [m00 EXCEPT !.last.chargeNowRead =
                             m00.State /= STATE_DISCONNECTED]
    IN
    IF m.State /= STATE_DISCONNECTED /\ hw.fail = "charge_now"
        THEN Fatal(ReadFailed(m, hw.fail))
    ELSE IF m.Capacity = 0 /\ hw.div0 = "trap" THEN Fatal(m)
    ELSE
    LET mAh == IF m.State /= STATE_DISCONNECTED
                   THEN ChargeRemaining(hw.chargeNow) ELSE 0
        percentage == ComputePercentage(mAh, m.Capacity)
        m1 == IF m.State = STATE_NOMINAL
                  THEN IF percentage /= m.oldPercentage
                           THEN [SavePercentage(m, percentage)
                                     EXCEPT !.oldPercentage = percentage]
                           ELSE m
                  ELSE [m EXCEPT !.oldPercentage = -1]
        healthStatus == ma_battery_GetHealthStatus(m.State, hw.health)
        m2 == ReportBatteryLevelAlarms(m1, percentage)
        m3 == ReportChargingStatusChange(m2)
        m4 == ReportHealthStatusChange(m3, healthStatus)
        m5 == PushToDataHub(m4, hw, healthStatus, percentage, mAh)
        m6 == IF m.State = STATE_DISCONNECTED THEN m5
              ELSE [m5 EXCEPT !.last.rawHealth = hw.health]
    IN  IF m6.alive THEN [m6 EXCEPT !.last.reportState = m.State] ELSE m6

\* Variant: the report is made before the event is handled.
RunStateMachineReportFirst(m, event, hw) ==
    LET m0 == ReportAll([m EXCEPT !.last.event = event], hw)
    IN  IF ~m0.alive THEN m0
        ELSE CASE m.State = STATE_UNCONFIGURED -> UnconfiguredState(m0, event)
               [] m.State = STATE_STABILIZING -> StabilizingState(m0, event)
               [] m.State = STATE_DETECTING_PRESENCE ->
                      DetectingPresenceState(m0, event)
               [] m.State = STATE_DISCONNECTED -> DisconnectedState(m0, event)
               [] m.State = STATE_CALIBRATING -> CalibratingState(m0, event)
               [] m.State = STATE_NOMINAL -> NominalState(m0, event)

RunStateMachine(m, event, hw) ==
    LET m0 == [m EXCEPT
                  !.last.event = event,
                  !.last.counters = <<m.OldChargeCounter, m.ChargeCounter>>,
                  !.last.seen =
                      IF event = EVENT_CAPACITY_CHANGED
                          THEN {[Capacity |-> m.Capacity, cfg |-> m.cfg]}
                          ELSE @]
        m1 == CASE m.State = STATE_UNCONFIGURED -> UnconfiguredState(m0, event)
                [] m.State = STATE_STABILIZING -> StabilizingState(m0, event)
                [] m.State = STATE_DETECTING_PRESENCE ->
                       DetectingPresenceState(m0, event)
                [] m.State = STATE_DISCONNECTED -> DisconnectedState(m0, event)
                [] m.State = STATE_CALIBRATING -> CalibratingState(m0, event)
                [] m.State = STATE_NOMINAL -> NominalState(m0, event)
    IN  ReportAll(m1, hw)

----------------------------------------------------------------------------
(* Sampling *)

ReadChargingStatus(m, hw) ==
    [(IF hw.status = IOERR THEN ReadFailed(m, "status") ELSE m)
        EXCEPT !.ChargingStatus =
        IF hw.status = IOERR THEN MA_BATTERY_CHARGING_ERROR
        ELSE IF hw.status = "Discharging" THEN MA_BATTERY_DISCHARGING
        ELSE IF hw.status = "Charging" THEN MA_BATTERY_CHARGING
        ELSE IF hw.status = "Full" THEN MA_BATTERY_FULL
        ELSE IF hw.status = "Not charging" THEN MA_BATTERY_NOT_CHARGING
        ELSE IF hw.status = "Unknown" THEN MA_BATTERY_CHARGING_UNKNOWN
        ELSE MA_BATTERY_CHARGING_ERROR]

\* Variant: the previous sample is not kept.
ReadChargeCounterKeepsOld(m, hw) ==
    IF hw.fail = "charge_counter" THEN Fatal(ReadFailed(m, hw.fail))
    ELSE [m EXCEPT !.ChargeCounter = hw.counter,
                   !.last.counterReads = Append(@, hw.counter)]

ReadChargeCounter(m, hw) ==
    IF hw.fail = "charge_counter" THEN Fatal(ReadFailed(m, hw.fail))
    ELSE [m EXCEPT !.OldChargeCounter = m.ChargeCounter,
                   !.ChargeCounter = hw.counter,
                   !.last.counterReads = Append(@, hw.counter)]

\* The handler body; the framework has re-armed the repeating timer.
TimerExpiry(m, hw) ==
    LET m1 == ReadChargeCounter(m, hw)
        m2 == [m1 EXCEPT !.CurrentFlow =
                  <<m1.ChargeCounter - m1.OldChargeCounter,
                    m1.Timer.interval>>]
        m3 == ReadChargingStatus(m2, hw)
    IN  IF ~m1.alive THEN m1
        ELSE RunStateMachine(m3, EVENT_TIMER_EXPIRED, hw)

BatteryTimerExpiryHandler ==
    /\ alive
    /\ Timer.running
    /\ Timer.elapsed >= Timer.interval
    /\ \E hw \in TickHwInputs :
          Commit(TimerExpiry([Mem("BatteryTimerExpiryHandler")
                                  EXCEPT !.Timer.elapsed = 0], hw))

\* The clock advances while the timer counts toward its expiry.
TimePasses ==
    /\ alive
    /\ Timer.running
    /\ Timer.elapsed < Timer.interval
    /\ Commit([Mem("-") EXCEPT !.Timer.elapsed = @ + TimeStep])

----------------------------------------------------------------------------
(* Configuration inputs *)

\* Variant: the event is delivered first, the new capacity stored after.
SetCapacityBodyEventFirst(m, capacity, hw) ==
    IF capacity < 0 THEN m
    ELSE IF capacity /= m.Capacity
        THEN LET m1 == RunStateMachine(m, EVENT_CAPACITY_CHANGED, hw)
             IN  DeletePercentage(
                     [m1 EXCEPT !.Capacity = capacity,
                                !.cfg = le_cfg_QuickSetInt(
                                            m1.cfg, "batteryInfo/capacity",
                                            capacity)])
    ELSE m

\* Variant: the stored percentage outlives the capacity it was taken for.
SetCapacityBodyKeepsPercentage(m, capacity, hw) ==
    IF capacity < 0 THEN m
    ELSE IF capacity /= m.Capacity
        THEN RunStateMachine(
                 [m EXCEPT !.Capacity = capacity,
                           !.cfg = le_cfg_QuickSetInt(m.cfg, "batteryInfo/capacity",
                                                      capacity)],
                 EVENT_CAPACITY_CHANGED, hw)
    ELSE m

SetCapacityBody(m, capacity, hw) ==
    IF capacity < 0 THEN m
    ELSE IF capacity /= m.Capacity
        THEN RunStateMachine(
                 DeletePercentage(
                     [m EXCEPT !.Capacity = capacity,
                               !.cfg = le_cfg_QuickSetInt(m.cfg, "batteryInfo/capacity",
                                                          capacity)]),
                 EVENT_CAPACITY_CHANGED, hw)
    ELSE m

SetCapacity ==
    /\ alive
    /\ \E capacity \in CapacityInputs :
       \E hw \in IF capacity < 0 \/ capacity = Capacity
                    THEN {HwDefault} ELSE ReportHwInputs :
          Done(Mem("SetCapacity"),
               SetCapacityBody(Mem("SetCapacity"), capacity, hw))

SetNominalVoltageBody(m, voltage) ==
    IF voltage < 0 THEN m
    ELSE [m EXCEPT !.cfg = le_cfg_QuickSetInt(m.cfg, "batteryInfo/voltage",
                                              voltage * 1000)]

SetNominalVoltage ==
    /\ alive
    /\ \E voltage \in VoltageInputs :
          Done(Mem("-"), SetNominalVoltageBody(Mem("-"), voltage))

\* Variant: a period of zero is taken.
SetPeriodBodyAcceptsZero(m, period) ==
    IF period < 0 THEN m
    ELSE [m EXCEPT !.Timer = le_timer_SetMsInterval(m.Timer, period * 1000)]

SetPeriodBody(m, period) ==
    IF period <= 0 THEN m
    ELSE [m EXCEPT !.Timer = le_timer_SetMsInterval(m.Timer, period * 1000)]

SetPeriod ==
    /\ alive
    /\ \E period \in PeriodInputs :
          Done(Mem("-"), SetPeriodBody(Mem("-"), period))

\* The battery type string is stored too; no behaviour depends on it.
SetTechnologyBody(m, mAh, milliVolts, hw) ==
    LET m1 == [m EXCEPT !.cfg = le_cfg_QuickSetInt(
                                    le_cfg_QuickSetInt(m.cfg, "batteryInfo/capacity", mAh),
                                    "batteryInfo/voltage", milliVolts)]
    IN  IF m1.Capacity /= mAh
            THEN RunStateMachine(
                     DeletePercentage([m1 EXCEPT !.Capacity = mAh]),
                     EVENT_CAPACITY_CHANGED, hw)
            ELSE m1

ma_adminbattery_SetTechnology ==
    /\ alive
    /\ \E mAh \in TechnologyInputs, milliVolts \in TechnologyMilliVolts :
       \E hw \in IF mAh = Capacity THEN {HwDefault} ELSE ReportHwInputs :
          LET m0 == Mem(IF mAh = Capacity
                            THEN "-" ELSE "ma_adminbattery_SetTechnology")
          IN  Done(m0, SetTechnologyBody(m0, mAh, milliVolts, hw))

----------------------------------------------------------------------------
(* Start-up *)

\* Memory of a freshly loaded process over config tree c.
Fresh(c) ==
    [alive |-> TRUE, State |-> STATE_UNCONFIGURED, Capacity |-> -1,
     ChargingStatus |-> MA_BATTERY_CHARGING_UNKNOWN, ChargeCounter |-> 0,
     OldChargeCounter |-> 0,
     CurrentFlow |-> <<0, DEFAULT_BATTERY_SAMPLE_INTERVAL_MS>>,
     PollingPeriod |-> DEFAULT_BATTERY_SAMPLE_INTERVAL_MS,
     Timer |-> [running |-> FALSE,
                interval |-> DEFAULT_BATTERY_SAMPLE_INTERVAL_MS,
                elapsed |-> 0],
     cfg |-> c, oldPercentage |-> -1,
     oldChargingStatus |-> MA_BATTERY_CHARGING_UNKNOWN,
     oldHealthStatus |-> MA_BATTERY_HEALTH_UNKNOWN,
     LevelAlarmRefMap |-> <<>>, ChargingStatusRegRefMap |-> <<>>,
     HealthStatusRegRefMap |-> <<>>,
     last |-> QuietAt("COMPONENT_INIT", STATE_UNCONFIGURED)]

\* ma_battery_GetTechnology: the capacity it hands back, or -1 for
\* LE_NOT_FOUND.
GetTechnologyCapacity(c) ==
    LET capacity == le_cfg_QuickGetInt(c, "batteryInfo/capacity", -1)
    IN  IF capacity < 0 THEN -1 ELSE ToUint16(capacity)

ComponentInit(c, hw) ==
    LET m == Fresh(c)
        mAh == GetTechnologyCapacity(c)
        m1 == ReadChargeCounter([m EXCEPT !.Capacity = mAh], hw)
        m2 == [m1 EXCEPT !.OldChargeCounter = m1.ChargeCounter]
        percent == LoadPercentage(c)
        m3 == IF percent >= 0
                  THEN [UpdateChargeLevel(m2,
                                          CDiv(m2.Capacity * percent, 100))
                            EXCEPT !.State = STATE_NOMINAL]
                  ELSE [m2 EXCEPT !.State = STATE_DETECTING_PRESENCE]
    IN  IF mAh < 0 THEN m
        ELSE IF ~m1.alive THEN m1
        ELSE [m3 EXCEPT !.Timer = le_timer_Start(m3.Timer)]

\* The supervisor restarts a dead process; a reboot restarts a live one.
COMPONENT_INIT ==
    \E hw \in InitHwInputs : Commit(ComponentInit(cfg, hw))

----------------------------------------------------------------------------
(* Registration API.  le_ref_CreateRef hands out a reference not in use;   *)
(* le_mem_ForceAlloc does not fail.                                        *)

\* An API call: the history records its name and arguments.
Api(op, args) == [Mem(op) EXCEPT !.last.args = args]

\* Variant: the thresholds are taken as they come.
AddLevelPercentageHandlerUnchecked(m, low, high, session, ref) ==
    [m EXCEPT
        !.LevelAlarmRefMap =
            [r \in (DOMAIN @) \cup {ref} |->
                IF r = ref
                    THEN [percentageLow |-> low,
                          percentageHigh |-> high,
                          lastAlarmType |-> LEVEL_NONE,
                          clientSessionRef |-> session]
                    ELSE @[r]],
        !.last.result = {ref}]

AddLevelPercentageHandlerBody(m, percentageLow, percentageHigh, session, ref) ==
    IF percentageHigh > 100 THEN [m EXCEPT !.last.result = {}]
    ELSE IF percentageHigh < percentageLow THEN [m EXCEPT !.last.result = {}]
    ELSE [m EXCEPT
             !.LevelAlarmRefMap =
                 [r \in (DOMAIN @) \cup {ref} |->
                     IF r = ref
                         THEN [percentageLow |-> percentageLow,
                               percentageHigh |-> percentageHigh,
                               lastAlarmType |-> LEVEL_NONE,
                               clientSessionRef |-> session]
                         ELSE @[r]],
             !.last.result = {ref}]

ma_battery_AddLevelPercentageHandler(inputs, sessions) ==
    /\ alive
    /\ Cardinality(DOMAIN LevelAlarmRefMap) < MaxRegs
    /\ \E th \in inputs, session \in sessions,
          ref \in Refs \ DOMAIN LevelAlarmRefMap :
          Commit(AddLevelPercentageHandlerBody(
                     Api("ma_battery_AddLevelPercentageHandler",
                         <<th[1], th[2], session>>),
                     th[1], th[2], session, ref))

\* The three Remove functions share this shape: look the reference up,
\* compare the owner, delete.
\* Variant: any session may remove a registration.
RemoveHandlerAnyOwner(map, handlerRef, session) ==
    [r \in (DOMAIN map) \ {handlerRef} |-> map[r]]

RemoveHandlerBody(map, handlerRef, session) ==
    IF handlerRef \notin DOMAIN map THEN map
    ELSE IF map[handlerRef].clientSessionRef = session
        THEN [r \in (DOMAIN map) \ {handlerRef} |-> map[r]]
    ELSE map

ma_battery_RemoveLevelPercentageHandler(sessions) ==
    /\ alive
    /\ \E handlerRef \in Handles, session \in sessions :
          Commit([Api("ma_battery_RemoveLevelPercentageHandler",
                      <<handlerRef, session>>)
                     EXCEPT !.LevelAlarmRefMap =
                                RemoveHandlerBody(@, handlerRef, session)])

AddStatusHandlerBody(map, session, ref) ==
    [r \in (DOMAIN map) \cup {ref} |->
        IF r = ref THEN [clientSessionRef |-> session] ELSE map[r]]

ma_battery_AddChargingStatusChangeHandler(sessions) ==
    /\ alive
    /\ Cardinality(DOMAIN ChargingStatusRegRefMap) < MaxRegs
    /\ \E session \in sessions, ref \in Refs \ DOMAIN ChargingStatusRegRefMap :
          Commit([Api("ma_battery_AddChargingStatusChangeHandler", <<session>>)
                     EXCEPT !.ChargingStatusRegRefMap =
                                AddStatusHandlerBody(@, session, ref),
                            !.last.result = {ref}])

ma_battery_RemoveChargingStatusChangeHandler(sessions) ==
    /\ alive
    /\ \E handlerRef \in Handles, session \in sessions :
          Commit([Api("ma_battery_RemoveChargingStatusChangeHandler",
                      <<handlerRef, session>>)
                     EXCEPT !.ChargingStatusRegRefMap =
                                RemoveHandlerBody(@, handlerRef, session)])

ma_battery_AddHealthChangeHandler(sessions) ==
    /\ alive
    /\ Cardinality(DOMAIN HealthStatusRegRefMap) < MaxRegs
    /\ \E session \in sessions, ref \in Refs \ DOMAIN HealthStatusRegRefMap :
          Commit([Api("ma_battery_AddHealthChangeHandler", <<session>>)
                     EXCEPT !.HealthStatusRegRefMap =
                                AddStatusHandlerBody(@, session, ref),
                            !.last.result = {ref}])

ma_battery_RemoveHealthChangeHandler(sessions) ==
    /\ alive
    /\ \E handlerRef \in Handles, session \in sessions :
          Commit([Api("ma_battery_RemoveHealthChangeHandler",
                      <<handlerRef, session>>)
                     EXCEPT !.HealthStatusRegRefMap =
                                RemoveHandlerBody(@, handlerRef, session)])

----------------------------------------------------------------------------
(* Specification *)

Init ==
    \E c \in InitialConfigs, hw \in InitHwInputs :
        LET m == ComponentInit(c, hw)
        IN  /\ alive = m.alive
            /\ State = m.State
            /\ Capacity = m.Capacity
            /\ ChargingStatus = m.ChargingStatus
            /\ ChargeCounter = m.ChargeCounter
            /\ OldChargeCounter = m.OldChargeCounter
            /\ CurrentFlow = m.CurrentFlow
            /\ PollingPeriod = m.PollingPeriod
            /\ Timer = m.Timer
            /\ cfg = m.cfg
            /\ oldPercentage = m.oldPercentage
            /\ oldChargingStatus = m.oldChargingStatus
            /\ oldHealthStatus = m.oldHealthStatus
            /\ LevelAlarmRefMap = m.LevelAlarmRefMap
            /\ ChargingStatusRegRefMap = m.ChargingStatusRegRefMap
            /\ HealthStatusRegRefMap = m.HealthStatusRegRefMap
            /\ last = m.last
            /\ divideByZero \in DivZeroInputs
            /\ reports = <<>>
            /\ sampleAge = 0
            /\ acceptedPeriod = 0
            /\ ApiCallbackCheckTimer = NotifyTimer

Next ==
    \/ BatteryTimerExpiryHandler
    \/ TimePasses
    \/ SetCapacity
    \/ SetPeriod
    \/ ma_adminbattery_SetTechnology
    \/ COMPONENT_INIT
    \/ ma_battery_AddChargingStatusChangeHandler(Sessions)

Spec == Init /\ [][Next]_vars

----------------------------------------------------------------------------
(* The status dispatchers.  The service starts with a capacity on file,    *)
(* with or without a stored percentage; clients subscribe to charging and  *)
(* health changes; the charger reports every health it knows, one it does  *)
(* not, and a health file that cannot be read.                             *)

\* The variables hold the memory m.
StartsAs(m) ==
    /\ alive = m.alive
    /\ State = m.State
    /\ Capacity = m.Capacity
    /\ ChargingStatus = m.ChargingStatus
    /\ ChargeCounter = m.ChargeCounter
    /\ OldChargeCounter = m.OldChargeCounter
    /\ CurrentFlow = m.CurrentFlow
    /\ PollingPeriod = m.PollingPeriod
    /\ Timer = m.Timer
    /\ cfg = m.cfg
    /\ oldPercentage = m.oldPercentage
    /\ oldChargingStatus = m.oldChargingStatus
    /\ oldHealthStatus = m.oldHealthStatus
    /\ LevelAlarmRefMap = m.LevelAlarmRefMap
    /\ ChargingStatusRegRefMap = m.ChargingStatusRegRefMap
    /\ HealthStatusRegRefMap = m.HealthStatusRegRefMap
    /\ last = m.last
    /\ sampleAge = 0
    /\ acceptedPeriod = 0
    /\ ApiCallbackCheckTimer = NotifyTimer

ConfiguredConfigs ==
    {("batteryInfo/capacity" :> 2000),
     ("batteryInfo/capacity" :> 2000) @@ ("batteryInfo/percent" :> 50)}

StatusHealthInputs == {"Good", "Cold", "Dead", IOERR}

StatusHwInputs ==
    {[HwDefault EXCEPT !.counter = counter, !.status = status,
                       !.health = health, !.div0 = divideByZero] :
        counter \in CounterInputs, status \in {"Charging", "Full"},
        health \in StatusHealthInputs}

\* BatteryTimerExpiryHandler with the files holding one of the given inputs.
BatteryTimerExpiryHandlerOn(inputs) ==
    /\ alive
    /\ Timer.running
    /\ Timer.elapsed >= Timer.interval
    /\ \E hw \in inputs :
          Commit(TimerExpiry([Mem("BatteryTimerExpiryHandler")
                                  EXCEPT !.Timer.elapsed = 0], hw))

InitStatus ==
    /\ \E c \in ConfiguredConfigs :
          StartsAs(ComponentInit(c, HwDefault))
    /\ divideByZero = "zero"
    /\ reports = <<>>

NextStatus ==
    \/ BatteryTimerExpiryHandlerOn(StatusHwInputs)
    \/ TimePasses
    \/ SetCapacity
    \/ ma_battery_AddChargingStatusChangeHandler(Sessions)
    \/ ma_battery_AddHealthChangeHandler(Sessions)

SpecStatus == InitStatus /\ [][NextStatus]_vars

----------------------------------------------------------------------------
(* The level alarm dispatcher.  The service starts in Nominal with a       *)
(* capacity of 2000 mAh; the gauge reads 300, 1000 or 1900 mAh (15, 50 and *)
(* 95 percent); clients register level alarms; an observer records up to   *)
(* MaxReports reporting passes.                                            *)

MaxReports == 6

NominalConfig ==
    ("batteryInfo/capacity" :> 2000) @@ ("batteryInfo/percent" :> 50)

AlarmChargeNowInputs == {300000, 1000000, 1900000}

AlarmLevelInputs == {<<20, 90>>, <<50, 50>>}

AlarmHwInputs ==
    {[HwDefault EXCEPT !.status = "Discharging", !.chargeNow = chargeNow,
                       !.div0 = divideByZero] :
        chargeNow \in AlarmChargeNowInputs}

\* BatteryTimerExpiryHandler with the files holding one of the given inputs
\* and the observer recording.
BatteryTimerExpiryHandlerRecorded(inputs) ==
    /\ alive
    /\ Timer.running
    /\ Timer.elapsed >= Timer.interval
    /\ Len(reports) < MaxReports
    /\ \E hw \in inputs :
          Recorded(TimerExpiry([Mem("BatteryTimerExpiryHandler")
                                    EXCEPT !.Timer.elapsed = 0], hw))

InitAlarms ==
    /\ StartsAs(ComponentInit(NominalConfig, HwDefault))
    /\ divideByZero = "zero"
    /\ reports = <<>>

NextAlarms ==
    \/ BatteryTimerExpiryHandlerRecorded(AlarmHwInputs)
    \/ TimePasses
    \/ ma_battery_AddLevelPercentageHandler(AlarmLevelInputs, Sessions)

SpecAlarms == InitAlarms /\ [][NextAlarms]_vars

----------------------------------------------------------------------------
(* The charging status dispatcher from its initial state.  The service     *)
(* starts in Nominal, where the charger's status is reported unmasked;     *)
(* every reporting pass since the start is recorded.                       *)

ChargingHwInputs ==
    {[HwDefault EXCEPT !.counter = counter, !.status = status,
                       !.div0 = divideByZero] :
        counter \in CounterInputs, status \in {"Charging", "Full"}}

NextCharging ==
    \/ BatteryTimerExpiryHandlerRecorded(ChargingHwInputs)
    \/ TimePasses
    \/ ma_battery_AddChargingStatusChangeHandler(Sessions)

SpecCharging == InitAlarms /\ [][NextCharging]_vars

\* Thresholds with low = high among them.
RegistryLevelInputs == LevelInputs \cup {<<50, 50>>}

----------------------------------------------------------------------------
(* The percentage computation.  The service starts in Nominal with one of  *)
(* several capacities on file; the gauge reads charges below, at and above *)
(* them; clients ask for the percentage and the ticks report it.           *)

PercentCapacities == {1, 3, 7, 999, 2000, 65535}

\* Charges in mAh, as ma_battery_GetChargeRemaining hands them on.
PercentChargeInputs ==
    (0..15) \cup {499, 500, 999, 1000, 1955, 1989, 1990, 2000, 2500, 65535}

PercentConfigs ==
    {("batteryInfo/capacity" :> capacity) @@ ("batteryInfo/percent" :> 50) :
        capacity \in PercentCapacities}

PercentHwInputs ==
    {[HwDefault EXCEPT !.status = "Discharging", !.chargeNow = 1000 * mAh,
                       !.div0 = divideByZero] :
        mAh \in {0, 7, 1000, 1955, 2500}}

\* ma_battery_GetPercentRemaining with charge_now holding uAh: the result
\* is the percentage, or none for LE_NOT_FOUND.
GetPercentRemainingBody(m, uAh) ==
    IF m.Capacity < 0 THEN m
    ELSE IF m.State \in {STATE_DISCONNECTED, STATE_STABILIZING,
                         STATE_DETECTING_PRESENCE} THEN m
    ELSE IF m.Capacity = 0 /\ divideByZero = "trap" THEN Fatal(m)
    ELSE [m EXCEPT !.last.args = <<ChargeRemaining(uAh)>>,
                   !.last.result =
                       {ComputePercentage(ChargeRemaining(uAh), m.Capacity)}]

ma_battery_GetPercentRemaining ==
    /\ alive
    /\ \E mAh \in PercentChargeInputs :
          Commit(GetPercentRemainingBody(
                     Mem("ma_battery_GetPercentRemaining"), 1000 * mAh))

InitPercentage ==
    /\ \E c \in PercentConfigs : StartsAs(ComponentInit(c, HwDefault))
    /\ divideByZero = "zero"
    /\ reports = <<>>

NextPercentage ==
    \/ ma_battery_GetPercentRemaining
    \/ BatteryTimerExpiryHandlerOn(PercentHwInputs)
    \/ TimePasses

SpecPercentage == InitPercentage /\ [][NextPercentage]_vars

----------------------------------------------------------------------------
(* The setters.  Every call of a setter is on record, the rejected ones    *)
(* included; no read fails.                                                *)

\* The files as a reporting pass with no failure finds them.
QuietHw == [HwDefault EXCEPT !.div0 = divideByZero]

SetCapacityCall ==
    /\ alive
    /\ \E capacity \in CapacityInputs :
          Commit(SetCapacityBody(Api("SetCapacity", <<capacity>>),
                                 capacity, QuietHw))

SetNominalVoltageCall ==
    /\ alive
    /\ \E voltage \in VoltageInputs :
          Commit(SetNominalVoltageBody(Api("SetNominalVoltage", <<voltage>>),
                                       voltage))

SetPeriodCall ==
    /\ alive
    /\ \E period \in PeriodInputs :
          Commit(SetPeriodBody(Api("SetPeriod", <<period>>), period))

SetTechnologyCall ==
    /\ alive
    /\ \E mAh \in TechnologyInputs, milliVolts \in TechnologyMilliVolts :
          Commit(SetTechnologyBody(
                     Api("ma_adminbattery_SetTechnology", <<mAh, milliVolts>>),
                     mAh, milliVolts, QuietHw))

InitSetters ==
    /\ \E c \in InitialConfigs \cup ConfiguredConfigs :
          StartsAs(ComponentInit(c, HwDefault))
    /\ divideByZero = "zero"
    /\ reports = <<>>

NextSetters ==
    \/ BatteryTimerExpiryHandlerOn(ChargingHwInputs)
    \/ TimePasses
    \/ SetCapacityCall
    \/ SetNominalVoltageCall
    \/ SetPeriodCall
    \/ SetTechnologyCall
    \/ ma_battery_AddLevelPercentageHandler(RegistryLevelInputs, Sessions)

SpecSetters == InitSetters /\ [][NextSetters]_vars

----------------------------------------------------------------------------
(* The gauge corrections.  Capacities up to millions of mAh are set while  *)
(* the service samples a battery that charges, fills up and discharges;    *)
(* no read fails.                                                          *)

\* 2147483 is the last capacity whose thousandfold fits an int.
GaugeCapacityInputs == {0, 2000, 2147483, 2147484, 3000000, 5000000}

GaugeHwInputs ==
    {[HwDefault EXCEPT !.counter = counter, !.status = status,
                       !.div0 = divideByZero] :
        counter \in CounterInputs,
        status \in {"Charging", "Full", "Discharging"}}

SetCapacityGauge ==
    /\ alive
    /\ \E capacity \in GaugeCapacityInputs :
          Commit(SetCapacityBody(Api("SetCapacity", <<capacity>>),
                                 capacity, QuietHw))

SetTechnologyGauge ==
    /\ alive
    /\ \E mAh \in GaugeCapacityInputs \ {0} :
          Commit(SetTechnologyBody(
                     Api("ma_adminbattery_SetTechnology", <<mAh, 3700>>),
                     mAh, 3700, QuietHw))

NextGauge ==
    \/ BatteryTimerExpiryHandlerOn(GaugeHwInputs)
    \/ TimePasses
    \/ SetCapacityGauge
    \/ SetTechnologyGauge

SpecGauge == InitSetters /\ [][NextGauge]_vars

----------------------------------------------------------------------------
(* The current flow.  An observer's clock runs beside the timer and is     *)
(* read at every sample of charge_counter, while the capacity and the      *)
(* period are set between the ticks; no read fails.                        *)

\* The observer stops the clock there.
MaxSampleAge == 30000

FlowPeriodInputs == {5, 15}

BatteryTimerExpiryHandlerTimed ==
    /\ alive
    /\ Timer.running
    /\ Timer.elapsed >= Timer.interval
    /\ \E hw \in ChargingHwInputs :
          Timed(TimerExpiry([Mem("BatteryTimerExpiryHandler")
                                EXCEPT !.Timer.elapsed = 0], hw), 0)

TimePassesTimed ==
    /\ alive
    /\ Timer.running
    /\ Timer.elapsed < Timer.interval
    /\ sampleAge < MaxSampleAge
    /\ Timed([Mem("-") EXCEPT !.Timer.elapsed = @ + TimeStep],
             sampleAge + TimeStep)

SetPeriodFlow ==
    /\ alive
    /\ \E period \in FlowPeriodInputs :
          Commit(SetPeriodBody(Api("SetPeriod", <<period>>), period))

NextFlow ==
    \/ BatteryTimerExpiryHandlerTimed
    \/ TimePassesTimed
    \/ SetCapacityCall
    \/ SetPeriodFlow

SpecFlow == InitSetters /\ [][NextFlow]_vars

----------------------------------------------------------------------------
(* The polling period.  Periods are pushed at any moment while the         *)
(* capacity is set and the battery charges and fills up; an observer notes *)
(* the period of the last SetPeriod that was accepted.                     *)

SetPeriodObserved ==
    /\ alive
    /\ \E period \in PeriodInputs :
          Retimed(SetPeriodBody(Api("SetPeriod", <<period>>), period),
                  IF period <= 0 THEN acceptedPeriod ELSE period)

NextPeriod ==
    \/ BatteryTimerExpiryHandlerOn(ChargingHwInputs)
    \/ TimePasses
    \/ SetCapacityCall
    \/ SetPeriodObserved

SpecPeriod == InitSetters /\ [][NextPeriod]_vars

----------------------------------------------------------------------------
(* The level alarms of a battery that goes away.  Level alarms are         *)
(* registered and the capacity is set while the battery charges, fills up  *)
(* or is taken out; the gauge answers or fails; a process that died is     *)
(* restarted.                                                              *)

LevelHwInputs ==
    {[HwDefault EXCEPT !.counter = counter, !.status = status,
                       !.chargeNow = chargeNow, !.fail = fail,
                       !.div0 = divideByZero] :
        counter \in CounterInputs, status \in {"Charging", "Full"},
        chargeNow \in {300000, 1900000}, fail \in {"none", "charge_now"}}

InitLevels ==
    /\ \E c \in ConfiguredConfigs : StartsAs(ComponentInit(c, HwDefault))
    /\ divideByZero \in DivZeroInputs
    /\ reports = <<>>

NextLevels ==
    \/ BatteryTimerExpiryHandlerOn(LevelHwInputs)
    \/ TimePasses
    \/ SetCapacityCall
    \/ COMPONENT_INIT
    \/ ma_battery_AddLevelPercentageHandler(RegistryLevelInputs, Sessions)

SpecLevels == InitLevels /\ [][NextLevels]_vars

----------------------------------------------------------------------------
(* The registries of battery.c.  Two clients register and remove level     *)
(* alarms and status handlers, with handles of their own, of the other     *)
(* client and of nobody, while the service samples in Nominal.             *)

NextRegistry ==
    \/ BatteryTimerExpiryHandlerOn(AlarmHwInputs)
    \/ TimePasses
    \/ ma_battery_AddLevelPercentageHandler(RegistryLevelInputs, Clients)
    \/ ma_battery_RemoveLevelPercentageHandler(Clients)
    \/ ma_battery_AddChargingStatusChangeHandler(Clients)
    \/ ma_battery_RemoveChargingStatusChangeHandler(Clients)
    \/ ma_battery_AddHealthChangeHandler(Clients)
    \/ ma_battery_RemoveHealthChangeHandler(Clients)

SpecRegistry == InitAlarms /\ [][NextRegistry]_vars

----------------------------------------------------------------------------
(* The registries of batteryService.c and its session close handler.  The  *)
(* registration functions of batteryService.c are those of battery.c; the  *)
(* close handler exists in batteryService.c only (battery.c has it inside  *)
(* a comment and registers none).                                          *)

\* RemoveAllLevelAlarmHandlersOwnedByClient, and the charging and health
\* functions of the same shape: every registration whose clientSessionRef
\* equals its own safe reference is deleted.  owner is not looked at.
RemoveAllHandlersOwnedByClient(map, owner) ==
    [r \in {ref \in DOMAIN map : ~(map[ref].clientSessionRef = ref)} |-> map[r]]

ClientSessionClosedHandlerBody(m, clientSession) ==
    [m EXCEPT
        !.LevelAlarmRefMap = RemoveAllHandlersOwnedByClient(@, clientSession),
        !.ChargingStatusRegRefMap =
            RemoveAllHandlersOwnedByClient(@, clientSession),
        !.HealthStatusRegRefMap =
            RemoveAllHandlersOwnedByClient(@, clientSession)]

ClientSessionClosedHandler ==
    /\ alive
    /\ \E clientSession \in Clients :
          Commit(ClientSessionClosedHandlerBody(
                     Api("ClientSessionClosedHandler", <<clientSession>>),
                     clientSession))

InitService ==
    /\ StartsAs(Fresh(<<>>))
    /\ divideByZero = "zero"
    /\ reports = <<>>

NextService ==
    \/ ma_battery_AddLevelPercentageHandler(LevelInputs, Clients)
    \/ ma_battery_RemoveLevelPercentageHandler(Clients)
    \/ ma_battery_AddChargingStatusChangeHandler(Clients)
    \/ ma_battery_RemoveChargingStatusChangeHandler(Clients)
    \/ ma_battery_AddHealthChangeHandler(Clients)
    \/ ma_battery_RemoveHealthChangeHandler(Clients)
    \/ ClientSessionClosedHandler

SpecService == InitService /\ [][NextService]_vars

----------------------------------------------------------------------------
(* The API callback check timer of batteryUtils.h.  There the readings are *)
(* taken when the Data Hub asks for a sample (PushToDataHub); a repeating  *)
(* timer takes them for the API clients when the Data Hub is slow.         *)
(* Clients register and deregister, the Data Hub samples at any moment,    *)
(* the battery is present or absent, and the present file can fail.        *)

\* Contents of the present file.
PresentInputs == {0, 1}

\* Which file read fails during a report to the API clients.
NotifyFailInputs == {"none", "present"}

\* What the reads make of a battery that is present.
NotifyHealthInputs == {MA_BATTERY_GOOD, MA_BATTERY_HEALTH_UNKNOWN}
NotifyChargingInputs == {MA_BATTERY_CHARGING, MA_BATTERY_FULL}
NotifyPercentages == {15, 95}

StopTimerIfNoCallbacksRegistered(m, timer) ==
    IF /\ DOMAIN m.HealthStatusRegRefMap = {}
       /\ DOMAIN m.LevelAlarmRefMap = {}
       /\ DOMAIN m.ChargingStatusRegRefMap = {}
        THEN le_timer_Stop(timer)
    ELSE timer

\* ReportChargingStatusChange of batteryUtils.h is handed the status.
ReportChargingStatusChangeOf(m, status) ==
    LET m1 == [m EXCEPT !.last.chargingSample = status]
    IN  IF m.oldChargingStatus /= status
            THEN [m1 EXCEPT
                     !.oldChargingStatus = status,
                     !.last.chargingCalls =
                         {<<r, status>> :
                             r \in DOMAIN m.ChargingStatusRegRefMap}]
            ELSE m1

\* The readings and the three reports PushToDataHub and the timer's handler
\* share: a battery that is not present reads Disconnected, Unknown, 0.
ReportToApiClients(m, fail, present, healthStatus, chargingStatus, percentage) ==
    IF fail = "present" THEN Fatal(ReadFailed(m, fail))
    ELSE LET there == present > 0
             m1 == ReportHealthStatusChange(
                       m, IF there THEN healthStatus
                          ELSE MA_BATTERY_DISCONNECTED)
             m2 == ReportChargingStatusChangeOf(
                       m1, IF there THEN chargingStatus
                           ELSE MA_BATTERY_CHARGING_UNKNOWN)
         IN  ReportBatteryLevelAlarms(m2, IF there THEN percentage ELSE 0)

AddLevelPercentageHandlerNotify ==
    /\ alive
    /\ Cardinality(DOMAIN LevelAlarmRefMap) < MaxRegs
    /\ \E th \in LevelInputs, session \in Clients,
          ref \in Refs \ DOMAIN LevelAlarmRefMap :
          LET m == AddLevelPercentageHandlerBody(
                       Api("ma_battery_AddLevelPercentageHandler",
                           <<th[1], th[2], session>>),
                       th[1], th[2], session, ref)
          IN  Notified(m, IF m.last.result = {} THEN ApiCallbackCheckTimer
                          ELSE le_timer_Start(ApiCallbackCheckTimer))

RemoveLevelPercentageHandlerNotify ==
    /\ alive
    /\ \E handlerRef \in Handles, session \in Clients :
          LET m == [Api("ma_battery_RemoveLevelPercentageHandler",
                        <<handlerRef, session>>)
                       EXCEPT !.LevelAlarmRefMap =
                                  RemoveHandlerBody(@, handlerRef, session)]
          IN  Notified(m, IF m.LevelAlarmRefMap = LevelAlarmRefMap
                              THEN ApiCallbackCheckTimer
                          ELSE StopTimerIfNoCallbacksRegistered(
                                   m, ApiCallbackCheckTimer))

AddChargingStatusChangeHandlerNotify ==
    /\ alive
    /\ Cardinality(DOMAIN ChargingStatusRegRefMap) < MaxRegs
    /\ \E session \in Clients, ref \in Refs \ DOMAIN ChargingStatusRegRefMap :
          Notified([Api("ma_battery_AddChargingStatusChangeHandler",
                        <<session>>)
                       EXCEPT !.ChargingStatusRegRefMap =
                                  AddStatusHandlerBody(@, session, ref),
                              !.last.result = {ref}],
                   le_timer_Start(ApiCallbackCheckTimer))

RemoveChargingStatusChangeHandlerNotify ==
    /\ alive
    /\ \E handlerRef \in Handles, session \in Clients :
          LET m == [Api("ma_battery_RemoveChargingStatusChangeHandler",
                        <<handlerRef, session>>)
                       EXCEPT !.ChargingStatusRegRefMap =
                                  RemoveHandlerBody(@, handlerRef, session)]
          IN  Notified(m, IF m.ChargingStatusRegRefMap = ChargingStatusRegRefMap
                              THEN ApiCallbackCheckTimer
                          ELSE StopTimerIfNoCallbacksRegistered(
                                   m, ApiCallbackCheckTimer))

AddHealthChangeHandlerNotify ==
    /\ alive
    /\ Cardinality(DOMAIN HealthStatusRegRefMap) < MaxRegs
    /\ \E session \in Clients, ref \in Refs \ DOMAIN HealthStatusRegRefMap :
          Notified([Api("ma_battery_AddHealthChangeHandler", <<session>>)
                       EXCEPT !.HealthStatusRegRefMap =
                                  AddStatusHandlerBody(@, session, ref),
                              !.last.result = {ref}],
                   le_timer_Start(ApiCallbackCheckTimer))

RemoveHealthChangeHandlerNotify ==
    /\ alive
    /\ \E handlerRef \in Handles, session \in Clients :
          LET m == [Api("ma_battery_RemoveHealthChangeHandler",
                        <<handlerRef, session>>)
                       EXCEPT !.HealthStatusRegRefMap =
                                  RemoveHandlerBody(@, handlerRef, session)]
          IN  Notified(m, IF m.HealthStatusRegRefMap = HealthStatusRegRefMap
                              THEN ApiCallbackCheckTimer
                          ELSE StopTimerIfNoCallbacksRegistered(
                                   m, ApiCallbackCheckTimer))

\* PushToDataHub of batteryUtils.h: the sample the Data Hub asked for.
PushToDataHubNotify ==
    /\ alive
    /\ \E fail \in NotifyFailInputs, present \in PresentInputs,
          healthStatus \in NotifyHealthInputs,
          chargingStatus \in NotifyChargingInputs,
          percentage \in NotifyPercentages :
          LET m == ReportToApiClients(Mem("PushToDataHub"), fail, present,
                                      healthStatus, chargingStatus, percentage)
          IN  Notified(m, IF m.alive
                              THEN le_timer_Restart(ApiCallbackCheckTimer)
                          ELSE ApiCallbackCheckTimer)

\* The repeating timer expired: it keeps running and counts anew.
AlarmCheckTimerExpiryHandler ==
    /\ alive
    /\ ApiCallbackCheckTimer.running
    /\ ApiCallbackCheckTimer.elapsed = ApiCallbackCheckTimer.interval
    /\ \E fail \in NotifyFailInputs, present \in PresentInputs,
          healthStatus \in NotifyHealthInputs,
          chargingStatus \in NotifyChargingInputs,
          percentage \in NotifyPercentages :
          Notified(ReportToApiClients(Mem("AlarmCheckTimerExpiryHandler"),
                                      fail, present, healthStatus,
                                      chargingStatus, percentage),
                   [ApiCallbackCheckTimer EXCEPT !.elapsed = 0])

TimePassesNotify ==
    /\ alive
    /\ ApiCallbackCheckTimer.running
    /\ ApiCallbackCheckTimer.elapsed < ApiCallbackCheckTimer.interval
    /\ Notified(Mem("-"), [ApiCallbackCheckTimer EXCEPT
                               !.elapsed = @ + TimeStep])

NextNotify ==
    \/ AddLevelPercentageHandlerNotify
    \/ RemoveLevelPercentageHandlerNotify
    \/ AddChargingStatusChangeHandlerNotify
    \/ RemoveChargingStatusChangeHandlerNotify
    \/ AddHealthChangeHandlerNotify
    \/ RemoveHealthChangeHandlerNotify
    \/ PushToDataHubNotify
    \/ AlarmCheckTimerExpiryHandler
    \/ TimePassesNotify

SpecNotify == InitService /\ [][NextNotify]_vars

----------------------------------------------------------------------------
(* Properties.  After a handler has run, `last` tells what it did and the  *)
(* variables hold what it left; any later step that changes a variable     *)
(* resets `last`.                                                          *)

\* The last step was a timer tick that ran the state machine.
Tick ==
    /\ last.op = "BatteryTimerExpiryHandler"
    /\ last.event = EVENT_TIMER_EXPIRED

\* The sample of the tick: charge counter still, charger reporting Charging.
ChargerWithoutBattery ==
    /\ ChargeCounter = OldChargeCounter
    /\ ChargingStatus = MA_BATTERY_CHARGING

BatteryFull == ChargingStatus = MA_BATTERY_FULL

\* The gauge writes of one correction with a value inside int32 / 1000.
GaugeWrite(mAh) == IF mAh > 0 THEN <<mAh * 1000>> ELSE <<>>

PercentStored == "batteryInfo/percent" \in DOMAIN cfg

\* C1: a handler that ran the state machine with EVENT_CAPACITY_CHANGED,
\* from whichever state, leaves State = STATE_STABILIZING and the timer
\* running with nothing elapsed; when it came from another state than
\* Stabilizing the timer counts STABILIZATION_TIME_MS.
C1_CapacityChangedRestartsStabilization ==
    last.event = EVENT_CAPACITY_CHANGED =>
        /\ State = STATE_STABILIZING
        /\ Timer.running
        /\ Timer.elapsed = 0
        /\ last.pre /= STATE_STABILIZING =>
               Timer.interval = STABILIZATION_TIME_MS

\* C1 witness: a capacity change handled while already stabilizing.
C1_Witness ==
    /\ last.event = EVENT_CAPACITY_CHANGED
    /\ last.pre = STATE_STABILIZING
    /\ State = STATE_STABILIZING
    /\ alive

\* C2: a tick in DetectingPresence, Calibrating or Nominal whose sample has
\* the counter equal to the previous one and the status Charging ends in
\* STATE_DISCONNECTED.
C2_ChargerWithoutBatteryDisconnects ==
    (/\ Tick
     /\ last.pre \in {STATE_DETECTING_PRESENCE, STATE_CALIBRATING,
                      STATE_NOMINAL}
     /\ ChargerWithoutBattery)
        => State = STATE_DISCONNECTED

\* C2 witness: such a tick taken in DetectingPresence.
C2_Witness ==
    /\ Tick
    /\ last.pre = STATE_DETECTING_PRESENCE
    /\ ChargerWithoutBattery
    /\ State = STATE_DISCONNECTED

\* C3 as stated: a tick in DetectingPresence or Disconnected whose counter
\* differs from the previous one ends in STATE_CALIBRATING whatever the
\* charging status.
C3_Original ==
    (/\ Tick
     /\ last.pre \in {STATE_DETECTING_PRESENCE, STATE_DISCONNECTED}
     /\ ChargeCounter /= OldChargeCounter)
        => State = STATE_CALIBRATING

\* C3 amended: such a tick ends in STATE_NOMINAL when the status is Full
\* and in STATE_CALIBRATING for every other status.
C3_CounterMovedCalibrates ==
    (/\ Tick
     /\ last.pre \in {STATE_DETECTING_PRESENCE, STATE_DISCONNECTED}
     /\ ChargeCounter /= OldChargeCounter)
        => State = IF BatteryFull THEN STATE_NOMINAL ELSE STATE_CALIBRATING

\* C3 witness: the counter moved in Disconnected with a full battery.
C3_Witness ==
    /\ Tick
    /\ last.pre = STATE_DISCONNECTED
    /\ ChargeCounter /= OldChargeCounter
    /\ BatteryFull
    /\ State = STATE_NOMINAL

C7_OneTimerTwoIntervals ==
    /\ (Tick /\ last.pre = STATE_STABILIZING) =>
           /\ State = STATE_DETECTING_PRESENCE
           /\ Timer.running
           /\ Timer.interval = PollingPeriod
    /\ (alive /\ State = STATE_STABILIZING) =>
           /\ Timer.running
           /\ Timer.interval = STABILIZATION_TIME_MS

\* C8: a step stores or changes batteryInfo/percent only through a
\* SavePercentage made with State = STATE_NOMINAL; after a step into
\* STATE_DISCONNECTED, and after a handler that changed Capacity, no
\* batteryInfo/percent is left.
C8_PercentageStep ==
    /\ (/\ "batteryInfo/percent" \in DOMAIN cfg'
        /\ \/ ~PercentStored
           \/ cfg'["batteryInfo/percent"] /= cfg["batteryInfo/percent"])
           => /\ last'.saved /= <<>>
              /\ \A i \in DOMAIN last'.saved :
                     last'.saved[i][1] = STATE_NOMINAL
              /\ last'.saved[Len(last'.saved)][2] =
                     cfg'["batteryInfo/percent"]
    /\ (State /= STATE_DISCONNECTED /\ State' = STATE_DISCONNECTED)
           => "batteryInfo/percent" \notin DOMAIN cfg'
    /\ (last'.event = EVENT_CAPACITY_CHANGED /\ Capacity' /= Capacity)
           => "batteryInfo/percent" \notin DOMAIN cfg'

C8_PercentageLifetime == [][C8_PercentageStep]_vars

\* C8 witness: a reporting pass in Nominal has just stored a percentage.
C8_Witness ==
    /\ last.saved /= <<>>
    /\ State = STATE_NOMINAL
    /\ PercentStored

\* C9: a start that finds a capacity and a percentage p >= 0 in the config
\* tree comes up in STATE_NOMINAL at once: no state machine event and no
\* StartCalibration.
C9_WarmStart ==
    (/\ last.op = "COMPONENT_INIT"
     /\ alive
     /\ "batteryInfo/capacity" \in DOMAIN cfg
     /\ cfg["batteryInfo/capacity"] >= 0
     /\ PercentStored
     /\ cfg["batteryInfo/percent"] >= 0)
        => /\ State = STATE_NOMINAL
           /\ last.pre = STATE_UNCONFIGURED
           /\ last.event = "none"
           /\ ~last.calibrated

\* C9 witness: a restart over a percentage stored by an earlier run.
C9_Witness ==
    /\ last.op = "COMPONENT_INIT"
    /\ alive
    /\ PercentStored
    /\ State = STATE_NOMINAL

\* C10: the charging status the service reports, to a caller of
\* ma_battery_GetChargingStatus and to the subscribers it notifies, is
\* Unknown in Unconfigured, Stabilizing, DetectingPresence and Disconnected
\* and the sampled ChargingStatus in Calibrating and Nominal.
C10_ChargingStatusMasked ==
    LET reported == IF State \in {STATE_CALIBRATING, STATE_NOMINAL}
                        THEN ChargingStatus
                        ELSE MA_BATTERY_CHARGING_UNKNOWN
    IN  /\ ma_battery_GetChargingStatus(State, ChargingStatus) = reported
        /\ \A c \in last.chargingCalls : c[2] = reported

\* C10 witness: a subscriber is told Unknown on the step into Disconnected
\* while the sampled status is Charging.
C10_Witness ==
    /\ last.chargingCalls /= {}
    /\ State = STATE_DISCONNECTED
    /\ ChargingStatus = MA_BATTERY_CHARGING

\* The health statuses the last handler reported: to the health dispatcher,
\* to the subscribers, to the Data Hub.
ReportedHealth ==
    {h \in {last.healthSample} : h /= "none"}
        \cup {c[2] : c \in last.healthCalls}
        \cup {last.pushed[i].health : i \in DOMAIN last.pushed}

\* C11: whatever the health file holds, ma_battery_GetHealthStatus answers
\* Good only in Calibrating and Nominal, Unknown for a raw Good in any other
\* state but Disconnected, and Disconnected in Disconnected; and what a
\* reporting pass hands to the health subscribers and to the Data Hub obeys
\* the same rule for the state it ran in.
C11_HealthMasked ==
    /\ \A raw \in StatusHealthInputs :
          LET h == ma_battery_GetHealthStatus(State, raw)
          IN  /\ h = MA_BATTERY_GOOD =>
                     State \in {STATE_CALIBRATING, STATE_NOMINAL}
              /\ raw = "Good" /\ State \notin {STATE_CALIBRATING,
                                               STATE_NOMINAL,
                                               STATE_DISCONNECTED} =>
                     h = MA_BATTERY_HEALTH_UNKNOWN
              /\ State = STATE_DISCONNECTED => h = MA_BATTERY_DISCONNECTED
    /\ \A h \in ReportedHealth :
          /\ h = MA_BATTERY_GOOD =>
                 State \in {STATE_CALIBRATING, STATE_NOMINAL}
          /\ last.rawHealth = "Good" /\ State \notin {STATE_CALIBRATING,
                                                      STATE_NOMINAL} =>
                 h = MA_BATTERY_HEALTH_UNKNOWN
          /\ State = STATE_DISCONNECTED => h = MA_BATTERY_DISCONNECTED

\* C11 witness: a pass outside Calibrating and Nominal read Good from the
\* health file and told a subscriber and the Data Hub Unknown.
C11_Witness ==
    /\ State \in {STATE_STABILIZING, STATE_DETECTING_PRESENCE}
    /\ last.rawHealth = "Good"
    /\ last.healthCalls /= {}
    /\ last.pushed /= <<>>
    /\ \A h \in ReportedHealth : h = MA_BATTERY_HEALTH_UNKNOWN

\* The recorded passes that sampled registration r, oldest first.
SamplesOf(r) ==
    SelectSeq(reports, LAMBDA e : \E x \in e.levelSamples : x.ref = r)

\* Registration r as the recorded pass e found it.
SampleOf(e, r) == CHOOSE x \in e.levelSamples : x.ref = r

\* The alarm kinds the recorded pass e delivered to registration r.
KindsOf(e, r) ==
    {IF a[4] THEN LEVEL_HIGH ELSE LEVEL_LOW : a \in {b \in e.alarms : b[1] = r}}

\* The one kind of KindsOf, or LEVEL_NONE.
KindOf(e, r) ==
    IF KindsOf(e, r) = {} THEN LEVEL_NONE ELSE CHOOSE k \in KindsOf(e, r) : TRUE

RegisteredRefs == UNION {{x.ref : x \in reports[i].levelSamples} :
                            i \in DOMAIN reports}

\* C12: in every recorded pass and for every registration it sampled, a high
\* alarm was delivered iff the percentage was above percentageHigh and the
\* last alarm was not High; failing that, a low alarm iff the percentage was
\* below percentageLow and the last alarm was not Low; never both.  A fresh
\* registration (20, 90) that saw 50, 95, 95, 15, 15, 95 got high at index 1,
\* low at index 3, high at index 5 and nothing else.
C12_AlarmDispatch ==
    /\ \A i \in DOMAIN reports : \A x \in reports[i].levelSamples :
          LET high == /\ x.percentage > x.percentageHigh
                      /\ x.lastAlarmType /= LEVEL_HIGH
              low == /\ ~high
                     /\ x.percentage < x.percentageLow
                     /\ x.lastAlarmType /= LEVEL_LOW
              kinds == KindsOf(reports[i], x.ref)
          IN  /\ LEVEL_HIGH \in kinds <=> high
              /\ LEVEL_LOW \in kinds <=> low
              /\ Cardinality({a \in reports[i].alarms : a[1] = x.ref}) <= 1
    /\ \A r \in RegisteredRefs :
          LET mine == SamplesOf(r)
          IN  /\ Len(mine) = 6
              /\ SampleOf(mine[1], r).lastAlarmType = LEVEL_NONE
              /\ SampleOf(mine[1], r).percentageLow = 20
              /\ SampleOf(mine[1], r).percentageHigh = 90
              /\ [i \in 1..6 |-> SampleOf(mine[i], r).percentage]
                     = <<50, 95, 95, 15, 15, 95>>
              => [i \in 1..6 |-> KindOf(mine[i], r)]
                     = <<LEVEL_NONE, LEVEL_HIGH, LEVEL_NONE,
                         LEVEL_LOW, LEVEL_NONE, LEVEL_HIGH>>

\* C12 witness: the six samples were handed to a fresh registration (20, 90).
C12_Witness ==
    \E r \in RegisteredRefs :
        /\ Len(SamplesOf(r)) = 6
        /\ SampleOf(SamplesOf(r)[1], r).lastAlarmType = LEVEL_NONE
        /\ SampleOf(SamplesOf(r)[1], r).percentageLow = 20
        /\ SampleOf(SamplesOf(r)[1], r).percentageHigh = 90
        /\ [i \in 1..6 |-> SampleOf(SamplesOf(r)[i], r).percentage]
               = <<50, 95, 95, 15, 15, 95>>
        /\ KindOf(SamplesOf(r)[6], r) = LEVEL_HIGH

\* C13: for every registration, two deliveries of the same alarm kind with
\* no other delivery between them have between them a sample that was back
\* inside the threshold: at or below percentageHigh after a high alarm, at
\* or above percentageLow after a low alarm.
C13_NoRepeatWithoutCrossingBack ==
    \A r \in RegisteredRefs :
        LET mine == SamplesOf(r)
        IN  \A i \in DOMAIN mine, j \in DOMAIN mine :
                /\ i < j
                /\ KindOf(mine[i], r) /= LEVEL_NONE
                /\ KindOf(mine[j], r) = KindOf(mine[i], r)
                /\ \A k \in (i + 1)..(j - 1) : KindOf(mine[k], r) = LEVEL_NONE
                => \E k \in (i + 1)..(j - 1) :
                      LET x == SampleOf(mine[k], r)
                      IN  IF KindOf(mine[i], r) = LEVEL_HIGH
                              THEN x.percentage <= x.percentageHigh
                              ELSE x.percentage >= x.percentageLow

\* C13 witness: after a high alarm the percentage stayed above the threshold
\* for one more sample, came back under it and rose above it again.
C13_Witness ==
    \E r \in RegisteredRefs :
        LET mine == SamplesOf(r)
        IN  \E i \in DOMAIN mine :
                /\ i + 3 \in DOMAIN mine
                /\ KindOf(mine[i], r) = LEVEL_HIGH
                /\ SampleOf(mine[i + 1], r).percentage
                       > SampleOf(mine[i + 1], r).percentageHigh
                /\ SampleOf(mine[i + 2], r).percentage
                       <= SampleOf(mine[i + 2], r).percentageHigh
                /\ SampleOf(mine[i + 3], r).percentage
                       > SampleOf(mine[i + 3], r).percentageHigh

\* One step of a status dispatcher: old is its last-broadcast value, map its
\* registry, sample what the step handed to it ("none" when the step did not
\* run it) and calls the callbacks the step made.
EdgeTriggered(old, oldAfter, map, sample, calls) ==
    IF sample = "none" \/ sample = old
        THEN /\ calls = {}
             /\ oldAfter = old
        ELSE /\ oldAfter = sample
             /\ calls = {<<r, sample>> : r \in DOMAIN map}
             /\ Cardinality(calls) = Cardinality(DOMAIN map)

\* C14: in every step, the charging dispatcher and the health dispatcher
\* each leave their last-broadcast value alone and call nobody when the
\* sample equals it (or when the step did not sample), and otherwise store
\* the sample and call every registered subscriber once with it.
C14_EdgeTriggeredDispatch ==
    [][/\ EdgeTriggered(oldChargingStatus, oldChargingStatus',
                        ChargingStatusRegRefMap, last'.chargingSample,
                        last'.chargingCalls)
       /\ EdgeTriggered(oldHealthStatus, oldHealthStatus',
                        HealthStatusRegRefMap, last'.healthSample,
                        last'.healthCalls)]_vars

\* C14 witness: one pass with both kinds of subscriber registered in which
\* the health had changed and the charging status had not.
C14_Witness ==
    /\ DOMAIN ChargingStatusRegRefMap /= {}
    /\ last.chargingSample /= "none"
    /\ last.chargingCalls = {}
    /\ last.healthCalls /= {}

\* The first five recorded passes sampled Charging, Charging, Full, Full,
\* Charging, with subscriber r registered in each of them.
FiveChargingSamples(r) ==
    /\ Len(reports) >= 5
    /\ [i \in 1..5 |-> reports[i].chargingSample]
           = <<MA_BATTERY_CHARGING, MA_BATTERY_CHARGING, MA_BATTERY_FULL,
               MA_BATTERY_FULL, MA_BATTERY_CHARGING>>
    /\ \A i \in 1..5 : r \in reports[i].chargingRefs

\* The indices, counted from 0, of the first five passes that called r.
CalledAt(r) ==
    {i - 1 : i \in {j \in 1..5 : \E c \in reports[j].chargingCalls : c[1] = r}}

\* C15 as stated: the subscriber is called at indices 2 and 4 only.
C15_Original ==
    \A r \in Refs : FiveChargingSamples(r) => CalledAt(r) = {2, 4}

\* C15: from the dispatcher's initial state (last broadcast Unknown) a
\* subscriber registered before the first sample that sees Charging,
\* Charging, Full, Full, Charging is called at indices 0, 2 and 4: at the
\* first sample, which differs from Unknown, and at the two changes.
C15_FirstSampleAndEdges ==
    \A r \in Refs : FiveChargingSamples(r) => CalledAt(r) = {0, 2, 4}

\* C15 witness: the five samples have been taken with a subscriber
\* registered.
C15_Witness ==
    \E r \in Refs : FiveChargingSamples(r)

\* The registrations of map that session owner does not own.
NotOwnedBy(map, owner) ==
    [r \in {ref \in DOMAIN map : map[ref].clientSessionRef /= owner} |-> map[r]]

\* C16: the step that handles the close of a client session leaves in each
\* of the three registries exactly the registrations other sessions own.
C16_SessionCloseRemovesOwned ==
    [][last'.op = "ClientSessionClosedHandler" =>
          /\ LevelAlarmRefMap' = NotOwnedBy(LevelAlarmRefMap, last'.args[1])
          /\ ChargingStatusRegRefMap' =
                 NotOwnedBy(ChargingStatusRegRefMap, last'.args[1])
          /\ HealthStatusRegRefMap' =
                 NotOwnedBy(HealthStatusRegRefMap, last'.args[1])]_vars

RemovedFrom(map, handlerRef, session) ==
    IF handlerRef \in DOMAIN map /\ map[handlerRef].clientSessionRef = session
        THEN [r \in (DOMAIN map) \ {handlerRef} |-> map[r]]
        ELSE map

FatalReads == {"charge_counter", "charge_now", "voltage_now", "temp"}

\* C19: a handler that handed an event to RunStateMachine, and in which no
\* read failed that abandons the report, made one reporting pass, up to and
\* including the push to the Data Hub, and the pass ran in the state the
\* handler left.
C19_OneReportingPass ==
    last.event /= "none" /\ last.readFailed \cap FatalReads = {} =>
        /\ last.reportState = State
        /\ Len(last.pushed) = 1

\* C20: a tick in which the read of a file failed leaves State as the tick
\* found it.
C20_FailedReadKeepsState ==
    last.op = "BatteryTimerExpiryHandler" /\ last.readFailed /= {} =>
        State = last.pre

\* C21: a tick in which the read of a file failed leaves the process
\* running and its timer armed for the next tick.
C21_FailedReadKeepsService ==
    last.op = "BatteryTimerExpiryHandler" /\ last.readFailed /= {} =>
        /\ alive
        /\ Timer.running

\* C22: outside Unconfigured the capacity is never negative.
C22_CapacityNonNegative ==
    State /= STATE_UNCONFIGURED => Capacity >= 0

\* C23: a SetCapacity or ma_adminbattery_SetTechnology that delivered
\* EVENT_CAPACITY_CHANGED had, when the state machine took the event, the
\* new capacity in Capacity and in the config tree and no percentage in the
\* config tree.
C23_CapacityStoredBeforeEvent ==
    last.event = EVENT_CAPACITY_CHANGED =>
        /\ last.seen /= {}
        /\ \A x \in last.seen :
              /\ x.Capacity = last.args[1]
              /\ "batteryInfo/capacity" \in DOMAIN x.cfg
              /\ x.cfg["batteryInfo/capacity"] = last.args[1]
              /\ "batteryInfo/percent" \notin DOMAIN x.cfg

\* C23 witness: a capacity change handled in Nominal, where a percentage was
\* on file before the call.
C23_Witness ==
    /\ last.event = EVENT_CAPACITY_CHANGED
    /\ last.pre = STATE_NOMINAL
    /\ last.op = "SetCapacity"

\* The last call was rejected for its arguments.
RejectedCall(l) ==
    \/ l.op = "SetCapacity" /\ l.args[1] < 0
    \/ l.op = "SetPeriod" /\ l.args[1] <= 0
    \/ l.op = "SetNominalVoltage" /\ l.args[1] < 0
    \/ /\ l.op = "ma_battery_AddLevelPercentageHandler"
       /\ (l.args[2] > 100 \/ l.args[2] < l.args[1])

\* C24: the step of a SetCapacity with a negative value, a SetPeriod with a
\* value of zero or less, a SetNominalVoltage with a negative value or an
\* AddLevelPercentageHandler with invalid thresholds changes neither State,
\* Capacity, the timer, the config tree nor a registry, and hands no event
\* to the state machine.
C24_RejectedCallChangesNothing ==
    [][RejectedCall(last') =>
          /\ UNCHANGED <<State, Capacity, Timer, cfg, LevelAlarmRefMap,
                         ChargingStatusRegRefMap, HealthStatusRegRefMap>>
          /\ last'.event = "none"]_vars

\* C24 witness: SetPeriod(0) called while the timer runs.
C24_Witness ==
    /\ last.op = "SetPeriod"
    /\ last.args = <<0>>
    /\ Timer.running

\* C25: a tick reads charge_counter once; when the read succeeds the state
\* machine finds the previous ChargeCounter in OldChargeCounter and the
\* sample in ChargeCounter, and the tick leaves them so.  No step other than
\* a tick or a start changes either variable.
C25_CounterAdvancesOncePerTick ==
    [][/\ last'.op = "BatteryTimerExpiryHandler" =>
              IF "charge_counter" \in last'.readFailed
                  THEN /\ last'.counterReads = <<>>
                       /\ UNCHANGED <<ChargeCounter, OldChargeCounter>>
                  ELSE /\ Len(last'.counterReads) = 1
                       /\ last'.event = EVENT_TIMER_EXPIRED
                       /\ last'.counters =
                              <<ChargeCounter, last'.counterReads[1]>>
                       /\ OldChargeCounter' = ChargeCounter
                       /\ ChargeCounter' = last'.counterReads[1]
       /\ last'.op \notin {"BatteryTimerExpiryHandler", "COMPONENT_INIT"} =>
              UNCHANGED <<ChargeCounter, OldChargeCounter>>]_vars

\* C25 witness: a tick that read a new counter value, taken after a capacity
\* change.
C25_Witness ==
    /\ last.op = "BatteryTimerExpiryHandler"
    /\ last.counterReads = <<ChargeCounter>>
    /\ ChargeCounter /= OldChargeCounter
    /\ last.pre = STATE_STABILIZING

\* The percentages the last handler computed: the getter's result and what
\* the reporting pass pushed in Nominal.
ComputedPercentages ==
    (IF last.op = "ma_battery_GetPercentRemaining" THEN last.result ELSE {})
        \cup {last.pushed[i].percentage : i \in DOMAIN last.pushed}

\* C26: with the capacity above zero, ComputePercentage of battery.c and of
\* batteryUtils.h is within 0..100 for every charge the gauge can report and
\* never decreases when the charge grows; so is every percentage the service
\* computed.
C26_PercentageBoundedMonotonic ==
    Capacity > 0 =>
        /\ \A a \in PercentChargeInputs, b \in PercentChargeInputs :
              /\ ComputePercentage(a, Capacity) \in 0..100
              /\ batteryUtils_ComputePercentage(a, Capacity) \in 0..100
              /\ a <= b =>
                    /\ ComputePercentage(a, Capacity)
                           <= ComputePercentage(b, Capacity)
                    /\ batteryUtils_ComputePercentage(a, Capacity)
                           <= batteryUtils_ComputePercentage(b, Capacity)
        /\ \A p \in ComputedPercentages : p \in 0..100

\* C26 witness: the service was asked for the percentage of a charge above
\* its capacity.
C26_Witness ==
    /\ last.op = "ma_battery_GetPercentRemaining"
    /\ last.args /= <<>>
    /\ last.args[1] > Capacity
    /\ last.result = {100}

\* The percentage the specification gives for a charge and a capacity.
RoundedPercentage(mAh, capacity) ==
    LET t == (1000 * mAh) \div capacity
        p == (t \div 10) + (IF t % 10 >= 5 THEN 1 ELSE 0)
    IN  IF p < 100 THEN p ELSE 100

\* C27: with the capacity above zero, ComputePercentage of battery.c and of
\* batteryUtils.h is min(100, floor(t / 10) + (1 if t mod 10 >= 5)) with
\* t = floor(1000 * mAh / capacity), and so is the percentage the getter
\* returns; a capacity of 2000 gives 50 for 1000 mAh, 98 for 1955 mAh and
\* 100 for 2500 mAh.
C27_PercentageRounding ==
    /\ Capacity > 0 =>
          /\ \A mAh \in PercentChargeInputs :
                /\ ComputePercentage(mAh, Capacity)
                       = RoundedPercentage(mAh, Capacity)
                /\ batteryUtils_ComputePercentage(mAh, Capacity)
                       = RoundedPercentage(mAh, Capacity)
          /\ last.op = "ma_battery_GetPercentRemaining"
             /\ last.args /= <<>> =>
                 last.result = {RoundedPercentage(last.args[1], Capacity)}
    /\ Capacity = 2000 =>
          /\ ComputePercentage(1000, Capacity) = 50
          /\ ComputePercentage(1955, Capacity) = 98
          /\ ComputePercentage(2500, Capacity) = 100
          /\ batteryUtils_ComputePercentage(1000, Capacity) = 50
          /\ batteryUtils_ComputePercentage(1955, Capacity) = 98
          /\ batteryUtils_ComputePercentage(2500, Capacity) = 100

\* C27 witness: with 2000 mAh of capacity the service answered 98 for
\* 1955 mAh.
C27_Witness ==
    /\ Capacity = 2000
    /\ last.op = "ma_battery_GetPercentRemaining"
    /\ last.args = <<1955>>
    /\ last.result = {98}

\* C28: a SetCapacity that set the capacity to 0 and in which no read failed
\* leaves the process running, the percentage its reporting pass pushed is
\* 0, and with that capacity ComputePercentage of battery.c and of
\* batteryUtils.h give 0 for every charge.
C28_ZeroCapacityGivesZero ==
    /\ last.op = "SetCapacity"
    /\ last.event = EVENT_CAPACITY_CHANGED
    /\ Capacity = 0
    /\ last.readFailed = {}
    =>
        /\ alive
        /\ \A i \in DOMAIN last.pushed : last.pushed[i].percentage = 0
        /\ \A mAh \in PercentChargeInputs :
              /\ ComputePercentage(mAh, Capacity) = 0
              /\ batteryUtils_ComputePercentage(mAh, Capacity) = 0


\* The calls of UpdateChargeLevel that carried a charge above zero.
PositiveLevels(levels) == SelectSeq(levels, LAMBDA mAh : mAh > 0)

\* C29: the handler wrote the gauge once for each call of UpdateChargeLevel
\* with mAh > 0, in order, and each value written is mAh * 1000; a call
\* with mAh <= 0 wrote nothing.
C29_GaugeWriteIsThousandfold ==
    LET levels == PositiveLevels(last.chargeLevels)
    IN  /\ Len(last.gaugeWrites) = Len(levels)
        /\ \A i \in DOMAIN levels :
              /\ last.gaugeWrites[i] % 1000 = 0
              /\ last.gaugeWrites[i] \div 1000 = levels[i]

\* The same for the charges whose thousandfold fits an int.
GaugeWriteWithinInt ==
    (\A i \in DOMAIN last.chargeLevels : last.chargeLevels[i] <= 2147483) =>
        C29_GaugeWriteIsThousandfold

\* The largest such charge went to the gauge.
GaugeWriteWithinIntReached ==
    /\ last.chargeLevels = <<2147483>>
    /\ last.gaugeWrites = <<2147483000>>

\* A tick that sampled the counter divided the difference of the two samples
\* by the interval the timer was set to.
FlowUsesTimerInterval ==
    [][last'.op = "BatteryTimerExpiryHandler" /\ last'.counterReads /= <<>> =>
          CurrentFlow' = <<ChargeCounter' - OldChargeCounter', Timer.interval>>
      ]_vars

\* C30: on a tick the current flow is the difference of the counter's last
\* two samples over the interval the timer is set to, and that interval is
\* the time that passed between the two samples.
C30_FlowOverSampleSpacing ==
    [][last'.op = "BatteryTimerExpiryHandler" /\ last'.counterReads /= <<>> =>
          /\ CurrentFlow'
                 = <<ChargeCounter' - OldChargeCounter', Timer.interval>>
          /\ sampleAge = Timer.interval
      ]_vars

\* The changes of State a timer tick may make.
TickEdges ==
    {<<STATE_STABILIZING, STATE_DETECTING_PRESENCE>>,
     <<STATE_DETECTING_PRESENCE, STATE_CALIBRATING>>,
     <<STATE_DETECTING_PRESENCE, STATE_NOMINAL>>,
     <<STATE_DETECTING_PRESENCE, STATE_DISCONNECTED>>,
     <<STATE_DISCONNECTED, STATE_CALIBRATING>>,
     <<STATE_DISCONNECTED, STATE_NOMINAL>>,
     <<STATE_CALIBRATING, STATE_NOMINAL>>,
     <<STATE_CALIBRATING, STATE_DISCONNECTED>>,
     <<STATE_NOMINAL, STATE_DISCONNECTED>>}

\* C31: a timer tick changes State along the edges of TickEdges only and
\* never runs in Unconfigured; no handler of a running process brings State
\* back to Unconfigured; and Stabilizing is entered by a handler that
\* handed EVENT_CAPACITY_CHANGED to the state machine only.
C31_TickEdges ==
    [][/\ last'.op = "BatteryTimerExpiryHandler" =>
              /\ State /= STATE_UNCONFIGURED
              /\ State' /= State => <<State, State'>> \in TickEdges
       /\ last'.op /= "COMPONENT_INIT" /\ State /= STATE_UNCONFIGURED =>
              State' /= STATE_UNCONFIGURED
       /\ last'.op /= "COMPONENT_INIT" /\ State' = STATE_STABILIZING
          /\ State /= STATE_STABILIZING =>
              last'.event = EVENT_CAPACITY_CHANGED
      ]_vars

\* C31 witness: a tick took a battery that was not calibrated yet from
\* Disconnected straight to Nominal.
C31_Witness ==
    /\ last.op = "BatteryTimerExpiryHandler"
    /\ last.pre = STATE_DISCONNECTED
    /\ State = STATE_NOMINAL

\* C32: a tick that read the counter and found it where the sample before
\* had left it keeps Disconnected for every charging status, and keeps
\* DetectingPresence for every charging status but Charging.
C32_StaticCounterStays ==
    [][/\ last'.op = "BatteryTimerExpiryHandler"
       /\ last'.counterReads /= <<>>
       /\ ChargeCounter' = OldChargeCounter'
       =>
          /\ State = STATE_DISCONNECTED => State' = STATE_DISCONNECTED
          /\ State = STATE_DETECTING_PRESENCE
             /\ ChargingStatus' /= MA_BATTERY_CHARGING =>
                 State' = STATE_DETECTING_PRESENCE
      ]_vars

\* C32 witness: a tick in DetectingPresence found the counter standing
\* still and the charger reporting Full.
C32_Witness ==
    /\ last.op = "BatteryTimerExpiryHandler"
    /\ last.counterReads /= <<>>
    /\ last.pre = STATE_DETECTING_PRESENCE
    /\ State = STATE_DETECTING_PRESENCE
    /\ ChargeCounter = OldChargeCounter
    /\ ChargingStatus = MA_BATTERY_FULL

\* The service started from a stored percentage.
StartedFromPercentage(op, c) ==
    /\ op = "COMPONENT_INIT"
    /\ "batteryInfo/percent" \in DOMAIN c
    /\ c["batteryInfo/percent"] >= 0

\* C33: State is Nominal after start-up only if a percentage was stored,
\* and a step that makes State Nominal, or starts the service in Nominal,
\* is a timer tick that read a Full charging status or a start-up from a
\* stored percentage.
C33_NominalOnlyWhenFull ==
    /\ (State = STATE_NOMINAL => StartedFromPercentage(last.op, cfg))
    /\ [][/\ State' = STATE_NOMINAL
          /\ State /= STATE_NOMINAL \/ last'.op = "COMPONENT_INIT"
          =>
             \/ /\ last'.op = "BatteryTimerExpiryHandler"
                /\ last'.event = EVENT_TIMER_EXPIRED
                /\ ChargingStatus' = MA_BATTERY_FULL
             \/ StartedFromPercentage(last'.op, cfg)
         ]_vars

\* C33 witness: calibration ended on a tick that found the battery full.
C33_Witness ==
    /\ last.op = "BatteryTimerExpiryHandler"
    /\ last.pre = STATE_CALIBRATING
    /\ State = STATE_NOMINAL
    /\ ChargingStatus = MA_BATTERY_FULL

\* C34: while the process runs, a percentage stored in the config tree
\* beside a capacity that ma_battery_GetTechnology accepts means State is
\* Nominal; in Stabilizing,
\* DetectingPresence, Disconnected and Calibrating none is stored.
C34_StoredPercentageMeansNominal ==
    /\ alive
    /\ "batteryInfo/percent" \in DOMAIN cfg
    /\ GetTechnologyCapacity(cfg) >= 0
    =>
        State = STATE_NOMINAL

\* C34 witness: the tick that ended the calibration stored the percentage.
C34_Witness ==
    /\ alive
    /\ last.op = "BatteryTimerExpiryHandler"
    /\ last.pre = STATE_CALIBRATING
    /\ State = STATE_NOMINAL
    /\ "batteryInfo/percent" \in DOMAIN cfg
    /\ GetTechnologyCapacity(cfg) >= 0

\* C35: for every registration, of two alarms delivered with no other
\* delivery between them one is high and the other low, whatever samples
\* came between them.
C35_AlarmsAlternate ==
    \A r \in RegisteredRefs :
        LET mine == SamplesOf(r)
        IN  \A i \in DOMAIN mine, j \in DOMAIN mine :
                /\ i < j
                /\ KindOf(mine[i], r) /= LEVEL_NONE
                /\ KindOf(mine[j], r) /= LEVEL_NONE
                /\ \A k \in (i + 1)..(j - 1) : KindOf(mine[k], r) = LEVEL_NONE
                => KindOf(mine[j], r) /= KindOf(mine[i], r)

\* C35 witness: after a high alarm the percentage came back between the
\* thresholds and rose above the high one again, with no alarm for it.
C35_Witness ==
    \E r \in RegisteredRefs :
        LET mine == SamplesOf(r)
        IN  \E i \in DOMAIN mine :
                /\ i + 2 \in DOMAIN mine
                /\ KindOf(mine[i], r) = LEVEL_HIGH
                /\ SampleOf(mine[i + 1], r).percentage
                       <= SampleOf(mine[i + 1], r).percentageHigh
                /\ SampleOf(mine[i + 1], r).percentage
                       >= SampleOf(mine[i + 1], r).percentageLow
                /\ SampleOf(mine[i + 2], r).percentage
                       > SampleOf(mine[i + 2], r).percentageHigh
                /\ KindOf(mine[i + 2], r) = LEVEL_NONE

\* C36: the tick that takes State from Calibrating or Nominal to
\* Disconnected makes its reporting pass in Disconnected: every health
\* subscriber is called with Disconnected, and every charging status
\* subscriber is called with Unknown unless Unknown was the last value
\* broadcast.
C36_DisconnectReportedAtOnce ==
    [][/\ last'.op = "BatteryTimerExpiryHandler"
       /\ State \in {STATE_CALIBRATING, STATE_NOMINAL}
       /\ State' = STATE_DISCONNECTED
       =>
          /\ last'.reportState = STATE_DISCONNECTED
          /\ last'.healthCalls
                 = {<<r, MA_BATTERY_DISCONNECTED>> :
                       r \in DOMAIN HealthStatusRegRefMap}
          /\ oldHealthStatus' = MA_BATTERY_DISCONNECTED
          /\ oldChargingStatus /= MA_BATTERY_CHARGING_UNKNOWN =>
                 last'.chargingCalls
                     = {<<r, MA_BATTERY_CHARGING_UNKNOWN>> :
                           r \in DOMAIN ChargingStatusRegRefMap}
      ]_vars

\* C36 witness: a disconnect seen in Nominal, told in the same tick to a
\* health subscriber and to a charging status subscriber.
C36_Witness ==
    /\ last.op = "BatteryTimerExpiryHandler"
    /\ last.pre = STATE_NOMINAL
    /\ State = STATE_DISCONNECTED
    /\ \E r \in DOMAIN HealthStatusRegRefMap :
          last.healthCalls = {<<r, MA_BATTERY_DISCONNECTED>>}
    /\ \E r \in DOMAIN ChargingStatusRegRefMap :
          last.chargingCalls = {<<r, MA_BATTERY_CHARGING_UNKNOWN>>}

\* A reporting pass that ran in Disconnected did not read charge_now and
\* handed 0 percent to every level alarm registration.
DisconnectedPassIsZero ==
    last.reportState = STATE_DISCONNECTED =>
        /\ ~last.chargeNowRead
        /\ \A x \in last.levelSamples : x.percentage = 0

\* The registrations with percentageLow > 0 whose last alarm was not Low got
\* a low alarm from the pass.
LowAlarmsDelivered ==
    \A x \in last.levelSamples :
        x.percentageLow > 0 /\ x.lastAlarmType /= LEVEL_LOW =>
            <<x.ref, 0, x.percentageLow, FALSE>> \in last.alarms

\* A tick took State to Disconnected.
EntersDisconnected ==
    /\ last.op = "BatteryTimerExpiryHandler"
    /\ last.event = EVENT_TIMER_EXPIRED
    /\ last.pre /= STATE_DISCONNECTED
    /\ State = STATE_DISCONNECTED

\* C37: every reporting pass in Disconnected leaves charge_now unread and
\* hands 0 percent to the alarm dispatcher, and the tick that enters
\* Disconnected makes such a pass, in which every registration with
\* percentageLow > 0 whose last alarm was not Low gets a low alarm.
C37_DisconnectRaisesLowAlarm ==
    /\ DisconnectedPassIsZero
    /\ EntersDisconnected =>
          /\ last.reportState = STATE_DISCONNECTED
          /\ LowAlarmsDelivered

\* The same where the capacity is not zero.
DisconnectRaisesLowAlarmWithCapacity ==
    Capacity /= 0 => C37_DisconnectRaisesLowAlarm

\* A disconnect raised the low alarm of a registration while the gauge could
\* not be read.
DisconnectRaisedLowAlarm ==
    /\ EntersDisconnected
    /\ last.reportState = STATE_DISCONNECTED
    /\ \E x \in last.levelSamples :
          /\ x.percentageLow > 0
          /\ <<x.ref, 0, x.percentageLow, FALSE>> \in last.alarms

\* C38: whenever the health pushed to the Data Hub is Disconnected, Unknown
\* or Error, the percentage and the mAh pushed in the same reading are both
\* 0, whatever the gauge reports; the charging flag pushed is true exactly
\* when the service is in Calibrating or Nominal and the charging status it
\* read is Charging or Full (the state-masked charging status).
C38_PushedReadingMasked ==
    \A i \in DOMAIN last.pushed :
        LET p == last.pushed[i]
        IN  /\ p.health \in {MA_BATTERY_DISCONNECTED, MA_BATTERY_HEALTH_ERROR,
                             MA_BATTERY_HEALTH_UNKNOWN}
                  => p.percentage = 0 /\ p.mAh = 0
            /\ p.charging <=>
                   /\ State \in {STATE_CALIBRATING, STATE_NOMINAL}
                   /\ ChargingStatus \in {MA_BATTERY_CHARGING, MA_BATTERY_FULL}

\* A reading pushed with health Unknown while the gauge holds charge and the
\* status read is Charging: zeros and "not charging" are pushed.
C38_Witness ==
    /\ last.pushed /= <<>>
    /\ last.chargeNowRead
    /\ State = STATE_DETECTING_PRESENCE
    /\ ChargingStatus = MA_BATTERY_CHARGING
    /\ last.pushed[1].health = MA_BATTERY_HEALTH_UNKNOWN
    /\ last.pushed[1].percentage = 0
    /\ last.pushed[1].mAh = 0
    /\ ~last.pushed[1].charging

\* The states in which the timer paces the polling of the battery.
PollingStates ==
    {STATE_DETECTING_PRESENCE, STATE_DISCONNECTED, STATE_CALIBRATING,
     STATE_NOMINAL}

\* C39: once a SetPeriod(p) with p > 0 has been accepted, the timer that
\* schedules the polling ticks in DetectingPresence, Disconnected,
\* Calibrating and Nominal runs with interval p until the next accepted
\* SetPeriod, also after stabilization windows, state transitions and
\* calibration starts.
C39_PollingAtAcceptedPeriod ==
    (alive /\ acceptedPeriod > 0 /\ State \in PollingStates) =>
        /\ Timer.running
        /\ Timer.interval = acceptedPeriod * 1000

\* What the code does keep: the accepted SetPeriod itself retimes the timer,
\* and a polling tick that stays in its state leaves the interval alone.
AcceptedPeriodRetimes ==
    [][/\ (last'.op = "SetPeriod" /\ last'.args[1] > 0) =>
              Timer'.interval = last'.args[1] * 1000
       /\ (last'.op = "BatteryTimerExpiryHandler" /\ State \in PollingStates
              /\ State' = State) =>
              Timer'.interval = Timer.interval]_vars

\* A tick in a polling state was scheduled at the accepted period.
AcceptedPeriodRetimed ==
    /\ acceptedPeriod > 0
    /\ last.op = "BatteryTimerExpiryHandler"
    /\ last.pre \in PollingStates
    /\ State = last.pre
    /\ Timer.interval = acceptedPeriod * 1000

\* No level-alarm, charging-status or health registration exists.
NoCallbacksRegistered ==
    /\ DOMAIN LevelAlarmRefMap = {}
    /\ DOMAIN ChargingStatusRegRefMap = {}
    /\ DOMAIN HealthStatusRegRefMap = {}

\* C40: in batteryUtils.h the API callback check timer is not running
\* whenever the three registries are empty, after any sequence of add-handler,
\* remove-handler and PushToDataHub calls, so that it expires only while a
\* registration exists.
C40_CheckTimerNeedsCallbacks ==
    (alive /\ NoCallbacksRegistered) => ~ApiCallbackCheckTimer.running

\* What the code does keep: the registration functions and the timer's own
\* handler never leave the timer running over empty registries when they
\* did not find it so.
CheckTimerStoppedByRemove ==
    [][(/\ C40_CheckTimerNeedsCallbacks
        /\ last'.op /= "PushToDataHub"
        /\ alive'
        /\ NoCallbacksRegistered') =>
           ~ApiCallbackCheckTimer'.running]_vars

\* The last registration was removed and the timer stopped with it.
CheckTimerStoppedAtLastRemove ==
    /\ alive
    /\ last.op = "ma_battery_RemoveHealthChangeHandler"
    /\ NoCallbacksRegistered
    /\ ~ApiCallbackCheckTimer.running
    /\ oldHealthStatus /= MA_BATTERY_HEALTH_UNKNOWN

\* The timer expired with nobody registered.
CheckTimerExpiredForNobody ==
    /\ last.op = "AlarmCheckTimerExpiryHandler"
    /\ NoCallbacksRegistered

====
